---- MODULE Spec2Model ----
(***************************************************************************)
(* Query Analysis & Evaluation Engine of Text-to-NoSQLwithSMART            *)
(* (src/metric/utils/metric2.py with its collaborators mongosh_exec.py,    *)
(* extract_fields.py, extract_stages.py and mongodb_field_parser.py).      *)
(*                                                                         *)
(* Specifications:                                                         *)
(*   SpecCmp  - the execution-based metrics (EX, EFM, EVM) of              *)
(*              QueryComparator.compare as a function of the two results   *)
(*              the database returns.                                      *)
(*   SpecPath - the same on documents with ObjectIds, each result taking   *)
(*              the fast path or the shell path.                           *)
(*   Spec     - one batch run of AccuracyCalculator.calculate: the loop,   *)
(*              compare, the cached two-strategy execution layer.          *)
(*   FairSpec - Spec with the progress a sequential Python loop has.       *)
(*   SpecExtract - the extractors on their own: get_query_stages and       *)
(*              extract_fields on one query text, parse_query of the       *)
(*              decoding field parser call after call on one instance.     *)
(***************************************************************************)
EXTENDS Integers, Sequences, FiniteSets, TLC

(***************************************************************************)
(* Document trees.  A Python value is a record with the same four fields   *)
(* whatever its type: tag is the Python type ("dict", "list", "tuple",     *)
(* "str", "int", "bool", "oid"), val the payload of a scalar, keys the keys of a   *)
(* dict in insertion order and kids its values (or the items of a list or  *)
(* tuple).                                                                 *)
(***************************************************************************)
Scalar(t, v) == [tag |-> t, val |-> v, keys |-> <<>>, kids |-> <<>>]

Str(v) == Scalar("str", v)

Num(v) == Scalar("int", v)

\* a bool: "True" or "False"
Bool(v) == Scalar("bool", v)

\* a bson ObjectId as the database stores it
Oid(v) == Scalar("oid", v)

Dict(ks, vs) == [tag |-> "dict", val |-> "", keys |-> ks, kids |-> vs]

List(vs) == [tag |-> "list", val |-> "", keys |-> <<>>, kids |-> vs]

Tuple(vs) == [tag |-> "tuple", val |-> "", keys |-> <<>>, kids |-> vs]

IsSeq(x) == x.tag \in {"list", "tuple"}

Range(s) == {s[i] : i \in 1..Len(s)}

\* d[k] for a dict d that has key k
DictGet(d, k) == d.kids[CHOOSE i \in 1..Len(d.keys) : d.keys[i] = k]

\* Python orders str by code point: "$" (0x24) sorts before the letters.
KeyOrder == <<"$oid", "a", "b">>

\* sorted(...) of a set of distinct keys
SortedKeys(S) == SelectSeq(KeyOrder, LAMBDA k : k \in S)

(***************************************************************************)
(* QueryComparator._freeze: dict -> tuple of (key, frozen value) pairs     *)
(* sorted by key; list or tuple -> tuple of frozen items; scalar as is.    *)
(***************************************************************************)
RECURSIVE freeze(_)
freeze(obj) ==
  IF obj.tag = "dict"
  THEN LET sk == SortedKeys(Range(obj.keys))
       IN  Tuple([i \in 1..Len(sk) |->
                   Tuple(<<Str(sk[i]), freeze(DictGet(obj, sk[i]))>>)])
  ELSE IF IsSeq(obj)
  THEN Tuple([i \in 1..Len(obj.kids) |-> freeze(obj.kids[i])])
  ELSE obj

\* the test of _thaw's heuristic on one member of a tuple
IsStrPair(i) == i.tag = "tuple" /\ Len(i.kids) = 2 /\ i.kids[1].tag = "str"

\* {k: v for k, v in obj}: a key keeps its first position and its last value
FirstAt(ps, j) == \A h \in 1..(j - 1) : ps[h].kids[1].val # ps[j].kids[1].val

LastValue(ps, k) ==
  ps[CHOOSE j \in 1..Len(ps) :
        /\ ps[j].kids[1].val = k
        /\ \A h \in (j + 1)..Len(ps) : ps[h].kids[1].val # k].kids[2]

RECURSIVE FirstKeys(_, _)
FirstKeys(ps, j) ==
  IF j > Len(ps) THEN <<>>
  ELSE IF FirstAt(ps, j) THEN <<ps[j].kids[1].val>> \o FirstKeys(ps, j + 1)
  ELSE FirstKeys(ps, j + 1)

(***************************************************************************)
(* QueryComparator._thaw: a tuple all of whose members are (str, value)    *)
(* pairs becomes a dict (all() of no members is True: the empty tuple      *)
(* becomes the empty dict), any other tuple a list.                        *)
(***************************************************************************)
RECURSIVE thaw(_)
thaw(obj) ==
  IF obj.tag = "tuple"
  THEN IF \A i \in 1..Len(obj.kids) : IsStrPair(obj.kids[i])
       THEN LET ks == FirstKeys(obj.kids, 1)
            IN  Dict(ks, [i \in 1..Len(ks) |-> thaw(LastValue(obj.kids, ks[i]))])
       ELSE List([i \in 1..Len(obj.kids) |-> thaw(obj.kids[i])])
  ELSE obj

(***************************************************************************)
(* a == b on two values that are not both dicts nor both sequences.        *)
(* Python's bool is a subclass of int: True == 1 and False == 0.           *)
(***************************************************************************)
BoolAsInt(x) == IF x.val = "True" THEN Num("1") ELSE Num("0")

PyEq(a, b) ==
  \/ a = b
  \/ a.tag = "bool" /\ b.tag = "int" /\ BoolAsInt(a) = b
  \/ a.tag = "int" /\ b.tag = "bool" /\ a = BoolAsInt(b)

(***************************************************************************)
(* QueryComparator._deep_equal.                                            *)
(***************************************************************************)
RECURSIVE deep_equal(_, _)
deep_equal(a, b) ==
  IF a.tag = "dict" /\ b.tag = "dict"
  THEN IF Range(a.keys) # Range(b.keys) THEN FALSE
       ELSE \A i \in 1..Len(a.keys) :
              deep_equal(a.kids[i], DictGet(b, a.keys[i]))
  ELSE IF IsSeq(a) /\ IsSeq(b)
  THEN IF Len(a.kids) # Len(b.kids) THEN FALSE
       ELSE \A i \in 1..Len(a.kids) : deep_equal(a.kids[i], b.kids[i])
  ELSE PyEq(a, b)

\* collect_fields, the helper nested in compare
RECURSIVE collect_fields(_)
collect_fields(d) ==
  IF d.tag = "dict"
  THEN Range(d.keys) \cup UNION {collect_fields(d.kids[i]) : i \in 1..Len(d.kids)}
  ELSE IF IsSeq(d)
  THEN UNION {collect_fields(d.kids[i]) : i \in 1..Len(d.kids)}
  ELSE {}

\* what Python's iteration yields: the items of a list, the keys of a dict
Iter(x) ==
  IF x.tag = "dict" THEN [i \in 1..Len(x.keys) |-> Str(x.keys[i])]
  ELSE x.kids

(***************************************************************************)
(* for g, p in zip(result_gold, result_pred): the loop of compare that     *)
(* collects the field names and clears EVM, one iteration per call.        *)
(***************************************************************************)
RECURSIVE ZipLoop(_, _, _, _)
ZipLoop(gs, ps, i, st) ==
  IF i > Len(gs) \/ i > Len(ps) THEN st
  ELSE ZipLoop(gs, ps, i + 1,
         [fields_gold |-> st.fields_gold \cup collect_fields(gs[i]),
          fields_pred |-> st.fields_pred \cup collect_fields(ps[i]),
          EVM |-> IF ~deep_equal(gs[i], ps[i]) THEN 0 ELSE st.EVM])

\* int(bool)
B2I(b) == IF b THEN 1 ELSE 0

(***************************************************************************)
(* The execution-based block of compare once both results are there:       *)
(* EX on the whole results, EFM and EVM from the zipped loop.              *)
(***************************************************************************)
ExecMetrics(result_gold, result_pred) ==
  LET st == ZipLoop(Iter(result_gold), Iter(result_pred), 1,
                    [fields_gold |-> {}, fields_pred |-> {}, EVM |-> 1])
  IN  [EX  |-> B2I(deep_equal(result_gold, result_pred)),
       EFM |-> IF st.fields_gold # st.fields_pred THEN 0 ELSE 1,
       EVM |-> st.EVM]

(***************************************************************************)
(* The two execution paths as conversions of what the database holds.      *)
(* Fast path: list(db[coll].find/aggregate(...)) hands the driver's        *)
(* values over, an ObjectId stays one value.  Fallback: mongosh prints     *)
(* EJSON.stringify(result, {relaxed: true}) and json.loads reads it back:  *)
(* an ObjectId arrives as the object {"$oid": "<hex>"}.                    *)
(***************************************************************************)
RECURSIVE NativeView(_)
NativeView(b) ==
  IF b.tag = "dict"
  THEN Dict(b.keys, [i \in 1..Len(b.kids) |-> NativeView(b.kids[i])])
  ELSE IF IsSeq(b)
  THEN List([i \in 1..Len(b.kids) |-> NativeView(b.kids[i])])
  ELSE b

RECURSIVE ShellView(_)
ShellView(b) ==
  IF b.tag = "dict"
  THEN Dict(b.keys, [i \in 1..Len(b.kids) |-> ShellView(b.kids[i])])
  ELSE IF IsSeq(b)
  THEN List([i \in 1..Len(b.kids) |-> ShellView(b.kids[i])])
  ELSE IF b.tag = "oid" THEN Dict(<<"$oid">>, <<Str(b.val)>>)
  ELSE b

PathView(path, b) == IF path = "native" THEN NativeView(b) ELSE ShellView(b)

\* _get_query_result: the caller gets the thawed form of the frozen result
GetQueryResultOf(raw) == thaw(freeze(raw))

(***************************************************************************)
(* Bounded universes of stored documents.  DocUniverse: scalar fields, a   *)
(* document whose fields are not stored in sorted order, an empty array,   *)
(* an empty sub-document, an array of [string, value] arrays, a            *)
(* sub-document, an array of two items, a boolean field.  PathDocs:        *)
(* documents with and without an ObjectId.                                 *)
(***************************************************************************)
DocUniverse ==
  { Dict(<<"a">>, <<Num("1")>>),
    Dict(<<"b">>, <<Num("1")>>),
    Dict(<<"b", "a">>, <<Num("2"), Num("1")>>),
    Dict(<<"a">>, <<List(<<>>)>>),
    Dict(<<"a">>, <<Dict(<<>>, <<>>)>>),
    Dict(<<"a">>, <<List(<<List(<<Str("b"), Num("1")>>)>>)>>),
    Dict(<<"a">>, <<Dict(<<"b">>, <<Num("1")>>)>>),
    Dict(<<"a">>, <<List(<<Num("1"), Num("2")>>)>>),
    Dict(<<"a">>, <<Bool("True")>>) }

PathDocs ==
  { Dict(<<"a">>, <<Num("1")>>),
    Dict(<<"b">>, <<Num("1")>>),
    Dict(<<"a">>, <<Oid("o")>>),
    Dict(<<"a">>, <<List(<<Oid("o")>>)>>) }

\* items that are no documents: [string, value] arrays, as the shell path
\* returns them for a query such as db.c.distinct("pairs")
Rows == {List(<<Str("a"), Num("1")>>), List(<<Str("b"), Num("2")>>)}

MaxDocs == 2

SeqsUpTo(S, n) == UNION {[1..m -> S] : m \in 0..n}

\* what a query can return: a sequence of at most MaxDocs documents
ResultsOver(D) == {List(s) : s \in SeqsUpTo(D, MaxDocs)}

Paths == {"native", "shell"}

\* results of the shell path that are sequences of such arrays
RowResults == ResultsOver(Rows) \ {List(<<>>)}

\* what the query of a path can return: documents on either path, arrays
\* only from the shell, which prints the value of any expression
ResultsOn(path) ==
  ResultsOver(PathDocs) \cup (IF path = "shell" THEN RowResults ELSE {})

(***************************************************************************)
(* State.  SpecCmp and SpecPath move the cmp* group; Spec moves the rest:  *)
(*   pc, side        where calculate / compare / _cached_exec stand        *)
(*   N, pos, cur     len(examples), examples taken so far, the current one *)
(*   metrics         the metrics dict of the compare in progress           *)
(*   result_gold, result_pred   the two thawed results                     *)
(*   cache           the lru_cache of _cached_exec, least recent first     *)
(*   metrics_sum, wrong_examples, report   the aggregator's totals         *)
(*   saved           what _save_wrong_examples wrote, if it was called     *)
(* and, recorded for the properties only:                                  *)
(*   handed          the examples passed to compare, by position           *)
(*   verdicts        per example taken: did compare raise, and the metrics *)
(*                   it returned                                           *)
(*   execCount, evictCount   per key: bodies of _cached_exec run, entries  *)
(*                   dropped by the cache                                  *)
(*   attempts        the strategies the current _cached_exec tried         *)
(*   timedOut        a shell call of the current compare timed out         *)
(*   errs, escaped   the metrics whose computation raised in the current   *)
(*                   compare; an exception left _get_query_result          *)
(*   outcome         how the last compare ended                            *)
(*   failed          the positions where something failed                  *)
(***************************************************************************)
VARIABLES cmpPc, bsonGold, bsonPred, pathGold, pathPred,
          cmpGold, cmpPred, cmpMetrics,
          pc, side, N, pos, cur, metrics, result_gold, result_pred, cache,
          metrics_sum, wrong_examples, report, saved, verdicts, handed,
          execCount, evictCount, attempts, timedOut, errs, escaped, outcome,
          failed,
          stPc, stQuery, stDb, stStages, stAgain, stFields, stFieldsAgain,
          stRaised,
          collection_fields, computed_fields, current_collection, parsed

cmpVars == <<cmpPc, bsonGold, bsonPred, pathGold, pathPred,
             cmpGold, cmpPred, cmpMetrics>>

batchVars == <<pc, side, N, pos, cur, metrics, result_gold, result_pred, cache,
               metrics_sum, wrong_examples, report, saved, verdicts, handed,
               execCount, evictCount, attempts, timedOut, errs, escaped,
               outcome, failed>>

\* a run of the extractors on one query text
stageVars == <<stPc, stQuery, stDb, stStages, stAgain, stFields,
               stFieldsAgain, stRaised>>

\* one MongoFieldParser instance of mongodb_field_parser.py and the calls of
\* parse_query made on it so far, each with the value it returned
parserVars == <<collection_fields, computed_fields, current_collection,
                parsed>>

extVars == <<stageVars, parserVars>>

vars == <<cmpVars, batchVars, extVars>>

NoMetrics == [EX |-> 0, EFM |-> 0, EVM |-> 0]

NoTree == List(<<>>)

(***************************************************************************)
(* Inputs of a batch run.  A query is what the dataset holds under         *)
(* 'target' or 'prediction': text (kind "str"), null (kind "none") or      *)
(* another JSON value such as a list (kind "other").  A text is its body   *)
(* and its whitespace layout ws; the bodies stand for                      *)
(*   "find"   db.c.find({...})            (FIND_RE matches)                *)
(*   "agg"    db.c.aggregate([...])       (AGG_RE matches)                 *)
(*   "chain"  db.c.find({...}).limit(n)   (neither pattern matches)        *)
(***************************************************************************)
Text(b, w) == [kind |-> "str", body |-> b, ws |-> w]

QNone == [kind |-> "none", body |-> "", ws |-> 0]

QOther == [kind |-> "other", body |-> "", ws |-> 0]

Queries == {Text("find", 0), Text("find", 1), Text("chain", 0), QNone, QOther}

\* "hr_1": a database with its schema file; "": no schema file of that name,
\* and not a database name
DbIds == {"hr_1", ""}

Examples == [db_id : DbIds, target : Queries, prediction : Queries,
             hasNLQ : BOOLEAN]

NoExample == [db_id |-> "", target |-> QNone, prediction |-> QNone,
              hasNLQ |-> TRUE]

\* what the database answers in a batch run
Da == Dict(<<"a">>, <<Num("1")>>)

Db == Dict(<<"b">>, <<Num("1")>>)

ExecResults == {List(<<Da>>), List(<<Da, Db>>)}

MaxExamples == 2

\* lru_cache(maxsize=2048), scaled down: eviction is the same at any size
CacheSize == 2

MetricsList == {"EX", "EM", "QSM", "QFC", "EFM", "EVM"}

(***************************************************************************)
(* _norm_ws: (s or '').strip() with whitespace runs collapsed.  None gives *)
(* the empty text, a text gives its body whatever its layout, any other    *)
(* value has no strip() and raises.                                        *)
(***************************************************************************)
NormRaises(q) == q.kind = "other"

norm_ws(q) == IF q.kind = "str" THEN q.body ELSE ""

(***************************************************************************)
(* Query texts for the stage extractor (extract_stages.py).  A text is a   *)
(* sequence of lexemes; a lexeme is a piece of text that the patterns and  *)
(* the substring tests of the extractor take or leave as a whole:          *)
(*   "db.c"  ".find("  ".aggregate("  ".sort("  ".limit("  ".count("       *)
(*   ")"  "{"  "}"  "["  "]"  ","  ";"  " "                                *)
(*   "$match:" ...   an unquoted operator key ($word followed by a colon)  *)
(*   "\"$match\":" ...   the same key in JSON quotes                       *)
(*   "name:" ...    a field key;  "pipeline:", "from:", "as:"  lookup keys *)
(*   "1", "\"open\"", "\"$dept\"" ...   values;  "/x/"  a pattern literal  *)
(***************************************************************************)
Contains(s, t) == \E i \in 1..Len(s) : s[i] = t

\* the least member of a set of integers, 0 for the empty set
Least(S) == IF S = {} THEN 0 ELSE CHOOSE x \in S : \A y \in S : x <= y

\* str.strip()
RECURSIVE LStrip(_)
LStrip(s) == IF s # <<>> /\ Head(s) = " " THEN LStrip(Tail(s)) ELSE s

RECURSIVE RStrip(_)
RStrip(s) ==
  IF s # <<>> /\ s[Len(s)] = " " THEN RStrip(SubSeq(s, 1, Len(s) - 1)) ELSE s

Strip(s) == RStrip(LStrip(s))

\* re.findall(r'\{(.*?)\}', s, re.DOTALL): from each opening brace to the
\* first closing brace after it, the search going on behind that brace
RECURSIVE BraceGroups(_)
BraceGroups(s) ==
  LET i == Least({k \in 1..Len(s) : s[k] = "{"})
      j == IF i = 0 THEN 0 ELSE Least({k \in (i + 1)..Len(s) : s[k] = "}"})
  IN  IF i = 0 \/ j = 0 THEN <<>>
      ELSE <<SubSeq(s, i + 1, j - 1)>> \o BraceGroups(SubSeq(s, j + 1, Len(s)))

\* the unquoted operator keys and the word r'\$(\w+):' captures in each
OpKeys ==
  <<"$match:", "$group:", "$sort:", "$limit:", "$project:", "$lookup:",
    "$unwind:", "$not:", "$regex:", "$options:", "$gt:", "$gte:", "$lt:",
    "$sum:", "$expr:", "$eq:">>

OpWords ==
  <<"match", "group", "sort", "limit", "project", "lookup",
    "unwind", "not", "regex", "options", "gt", "gte", "lt",
    "sum", "expr", "eq">>

IsOpKey(t) == \E n \in 1..Len(OpKeys) : OpKeys[n] = t

OpWord(t) == OpWords[CHOOSE n \in 1..Len(OpKeys) : OpKeys[n] = t]

\* re.findall(r'\$(\w+):', stage_str)
RECURSIVE StageOps(_)
StageOps(s) ==
  IF s = <<>> THEN <<>>
  ELSE (IF IsOpKey(Head(s)) THEN <<OpWord(Head(s))>> ELSE <<>>)
         \o StageOps(Tail(s))

\* '$word' in text: the lexemes that hold $word as a substring, quoted or not
Holds(t, w) ==
  CASE w = "$not"   -> t \in {"$not:", "\"$not\":"}
    [] w = "$regex" -> t \in {"$regex:", "\"$regex\":"}
    [] w = "$expr"  -> t \in {"$expr:", "\"$expr\":"}
    [] w = "$eq"    -> t \in {"$eq:", "\"$eq\":"}
    [] w = "$gt"    -> t \in {"$gt:", "$gte:", "\"$gt\":", "\"$gte\":"}
    [] w = "$gte"   -> t \in {"$gte:", "\"$gte\":"}
    [] w = "$lt"    -> t \in {"$lt:"}
    [] OTHER        -> FALSE

HasWord(s, w) == \E i \in 1..Len(s) : Holds(s[i], w)

\* _extract_regex_operators: '$regex' in the text, or a /pattern/ literal
extract_regex_operators(s) == HasWord(s, "$regex") \/ Contains(s, "/x/")

\* _extract_expr_operators: with '$expr' in the text, 'expr' and then each
\* comparison operator of the list that occurs in the text, in list order
ExprOps == <<"$eq", "$gt", "$gte", "$lt", "$lte", "$ne", "$not">>

ExprWords == <<"eq", "gt", "gte", "lt", "lte", "ne", "not">>

RECURSIVE ExprFrom(_, _)
ExprFrom(s, n) ==
  IF n > Len(ExprOps) THEN <<>>
  ELSE (IF HasWord(s, ExprOps[n]) THEN <<ExprWords[n]>> ELSE <<>>)
         \o ExprFrom(s, n + 1)

extract_expr_operators(s) ==
  IF HasWord(s, "$expr") THEN <<"expr">> \o ExprFrom(s, 1) ELSE <<>>

\* re.search(r'pipeline:\s*\[(.*?)\]', s): the text between the bracket
\* that follows a pipeline: key and the first closing bracket behind it
SubPipeline(s) ==
  LET opens == {k \in 2..Len(s) :
                  /\ s[k] = "["
                  /\ \E p \in 1..(k - 1) :
                       /\ s[p] = "pipeline:"
                       /\ \A m \in (p + 1)..(k - 1) : s[m] = " "}
      hits  == {k \in opens : \E c \in (k + 1)..Len(s) : s[c] = "]"}
      k0    == Least(hits)
  IN  IF k0 = 0 THEN [found |-> FALSE, text |-> <<>>]
      ELSE [found |-> TRUE,
            text  |-> SubSeq(s, k0 + 1,
                             Least({c \in (k0 + 1)..Len(s) : s[c] = "]"}) - 1)]

RECURSIVE parse_pipeline_stage(_)
RECURSIVE ParseEach(_)
\* _parse_pipeline_stage over each fragment in turn, the lists joined
ParseEach(frags) ==
  IF frags = <<>> THEN <<>>
  ELSE parse_pipeline_stage(Head(frags)) \o ParseEach(Tail(frags))

\* _parse_pipeline_stage
parse_pipeline_stage(stage_str) ==
  LET stage_ops == StageOps(stage_str)
  IN  IF stage_ops = <<>> THEN <<>>
      ELSE LET main_op == stage_ops[1]
           IN  <<main_op>> \o
               (IF main_op = "match"
                  THEN (IF HasWord(stage_str, "$not") THEN <<"not">>
                        ELSE IF extract_regex_operators(stage_str)
                               THEN <<"regex">>
                        ELSE <<>>)
                       \o extract_expr_operators(stage_str)
                ELSE IF main_op = "lookup" /\ Contains(stage_str, "pipeline:")
                  THEN (IF SubPipeline(stage_str).found
                          THEN ParseEach(BraceGroups(SubPipeline(stage_str).text))
                        ELSE <<>>)
                ELSE <<>>)

\* what may follow the closing parenthesis of find(...): optional blanks and
\* then a period, a semicolon or the end of the text
RECURSIVE FindTail(_)
FindTail(s) ==
  \/ s = <<>>
  \/ s # <<>> /\ Head(s) \in {";", ".sort(", ".limit(", ".count("}
  \/ s # <<>> /\ Head(s) = " " /\ FindTail(Tail(s))

\* the same for aggregate(...): optional blanks, then a semicolon or the end
RECURSIVE AggTail(_)
AggTail(s) ==
  \/ s = <<>>
  \/ s # <<>> /\ Head(s) = ";"
  \/ s # <<>> /\ Head(s) = " " /\ AggTail(Tail(s))

\* the positions of a text behind which the text goes on as IsTail wants
TailAt(q, IsTail(_)) ==
  {k \in 1..Len(q) : IsTail(SubSeq(q, k + 1, Len(q)))}

\* re.search(r'<call>\s*\((.*?)\)<tail>', query): the shortest argument text
\* after the first call lexeme whose closing parenthesis is at one of the
\* positions that have the tail behind them
CallArgs(q, call, tails) ==
  LET i == Least({k \in 1..Len(q) : q[k] = call})
      j == IF i = 0 THEN 0
           ELSE Least({k \in (i + 1)..Len(q) : q[k] = ")" /\ k \in tails})
  IN  IF i = 0 \/ j = 0 THEN [found |-> FALSE, text |-> <<>>]
      ELSE [found |-> TRUE, text |-> SubSeq(q, i + 1, j - 1)]

\* the find branch of get_query_stages
FindStages(query) ==
  LET find_match == CallArgs(query, ".find(", TailAt(query, FindTail))
      args       == BraceGroups(find_match.text)
  IN  IF ~find_match.found THEN <<>>
      ELSE (IF Len(args) > 0 /\ Strip(args[1]) # <<>>
              THEN <<"match">>
                   \o (IF extract_regex_operators(args[1])
                         THEN <<"regex">> ELSE <<>>)
                   \o (IF HasWord(args[1], "$not") THEN <<"not">> ELSE <<>>)
            ELSE <<>>)
           \o (IF Len(args) > 1 /\ Strip(args[2]) # <<>>
                 THEN <<"project">> ELSE <<>>)
           \o (IF Contains(query, ".sort(") THEN <<"sort">> ELSE <<>>)
           \o (IF Contains(query, ".limit(") THEN <<"limit">> ELSE <<>>)

\* the aggregate branch of get_query_stages
AggregateStages(query) ==
  LET agg_match == CallArgs(query, ".aggregate(", TailAt(query, AggTail))
  IN  IF ~agg_match.found THEN <<>>
      ELSE ParseEach(BraceGroups(agg_match.text))

\* get_query_stages, for a query that is a text
get_query_stages(text) ==
  LET query == Strip(text)
  IN  IF Contains(query, ".find(") THEN FindStages(query)
      ELSE IF Contains(query, ".aggregate(") THEN AggregateStages(query)
      ELSE <<>>

(***************************************************************************)
(* extract_fields.py: the schema-based field extractor.  The constructor   *)
(* reads the schema file of the database and raises when there is none;    *)
(* parse_query collapses the whitespace of the text and credits each       *)
(* schema field that occurs in it as "f", 'f', $f, f: or .$f.              *)
(***************************************************************************)
SchemaLoads(db_name) == db_name = "hr_1"

\* _extract_schema_fields of the schema file of hr_1
all_fields == {"status", "name", "age", "dept"}

\* the lexemes in which one of the five spellings of field f occurs
Mentions(t, f) ==
  CASE f = "status" -> t \in {"status:", "\"status\":"}
    [] f = "name"   -> t \in {"name:", "\"name\":", "\"$name\"", "\"$$name\""}
    [] f = "age"    -> t \in {"age:", "\"age\":", "\"$age\""}
    [] f = "dept"   -> t \in {"dept:", "\"$dept\""}
    [] OTHER        -> FALSE

\* ' '.join(query.split()): no blanks at the ends, runs of blanks collapsed
RECURSIVE Collapse(_)
Collapse(s) ==
  IF Len(s) < 2 THEN s
  ELSE IF s[1] = " " /\ s[2] = " " THEN Collapse(Tail(s))
  ELSE <<Head(s)>> \o Collapse(Tail(s))

JoinSplit(s) == Collapse(Strip(s))

\* MongoFieldParser.parse_query of extract_fields.py; the sorted list it
\* returns is a set without repetitions
schema_parse_query(fields, text) ==
  LET query == JoinSplit(text)
  IN  {f \in fields : \E i \in 1..Len(query) : Mentions(query[i], f)}

\* extract_fields(MQL, db_name), for a database whose schema loads
extract_fields(MQL, db_name) == schema_parse_query(all_fields, MQL)

(***************************************************************************)
(* The queries the extractors are run on, and their texts.  A find query   *)
(* is its filter (a list of conditions), its projection ("none": no second *)
(* argument, "empty": {}, "some": {name:1,_id:0}) and the calls chained    *)
(* behind it; an aggregate query is its pipeline, written with bare keys   *)
(* or with JSON-quoted keys.  The conditions:                              *)
(*   "eq"        status:"open"             "gt"        age:{$gt:30}        *)
(*   "regex"     name:{$regex:"^A"}        "slash"     name:/x/            *)
(*   "notslash"  name:{$not:/x/}           "notregex"  name:{$not:{$regex: *)
(*                                                      "^A"}}             *)
(* and, in the pipelines that use $expr,                                   *)
(*   "expr_eq"   $expr:{$eq:["$age","$$name"]}                             *)
(*   "expr_gte"  $expr:{$gte:["$age",30]}                                  *)
(***************************************************************************)
CondKinds == {"eq", "gt", "regex", "slash", "notslash", "notregex"}

\* a key as the text spells it
Key(k, quoted) ==
  IF ~quoted THEN k
  ELSE CASE k = "$match:"  -> "\"$match\":"
         [] k = "$group:"  -> "\"$group\":"
         [] k = "$sort:"   -> "\"$sort\":"
         [] k = "$limit:"  -> "\"$limit\":"
         [] k = "$not:"    -> "\"$not\":"
         [] k = "$regex:"  -> "\"$regex\":"
         [] k = "$gt:"     -> "\"$gt\":"
         [] k = "$sum:"    -> "\"$sum\":"
         [] k = "$expr:"   -> "\"$expr\":"
         [] k = "$eq:"     -> "\"$eq\":"
         [] k = "$gte:"    -> "\"$gte\":"
         [] k = "status:"  -> "\"status\":"
         [] k = "name:"    -> "\"name\":"
         [] k = "age:"     -> "\"age\":"
         [] k = "_id:"     -> "\"_id\":"
         [] k = "n:"       -> "\"n\":"
         [] OTHER          -> k

CondText(c, quoted) ==
  CASE c = "eq"       -> <<Key("status:", quoted), "\"open\"">>
    [] c = "gt"       -> <<Key("age:", quoted), "{", Key("$gt:", quoted),
                           "30", "}">>
    [] c = "regex"    -> <<Key("name:", quoted), "{", Key("$regex:", quoted),
                           "\"^A\"", "}">>
    [] c = "slash"    -> <<Key("name:", quoted), "/x/">>
    [] c = "notslash" -> <<Key("name:", quoted), "{", Key("$not:", quoted),
                           "/x/", "}">>
    [] c = "notregex" -> <<Key("name:", quoted), "{", Key("$not:", quoted),
                           "{", Key("$regex:", quoted), "\"^A\"", "}", "}">>
    [] c = "expr_eq"  -> <<Key("$expr:", quoted), "{", Key("$eq:", quoted),
                           "[", "\"$age\"", ",", "\"$$name\"", "]", "}">>
    [] c = "expr_gte" -> <<Key("$expr:", quoted), "{", Key("$gte:", quoted),
                           "[", "\"$age\"", ",", "30", "]", "}">>

\* the conditions of a document, separated by commas
RECURSIVE CondsText(_, _)
CondsText(conds, quoted) ==
  IF conds = <<>> THEN <<>>
  ELSE CondText(Head(conds), quoted)
         \o (IF Len(conds) > 1 THEN <<",">> ELSE <<>>)
         \o CondsText(Tail(conds), quoted)

FilterText(conds, quoted) == <<"{">> \o CondsText(conds, quoted) \o <<"}">>

ProjectionText(p) ==
  CASE p = "none"  -> <<>>
    [] p = "empty" -> <<",", "{", "}">>
    [] p = "some"  -> <<",", "{", "name:", "1", ",", "_id:", "0", "}">>

CallText(c) ==
  CASE c = "sort"  -> <<".sort(", "{", "age:", "1", "}", ")">>
    [] c = "limit" -> <<".limit(", "5", ")">>
    [] c = "count" -> <<".count(", ")">>

RECURSIVE ChainText(_)
ChainText(chain) ==
  IF chain = <<>> THEN <<>> ELSE CallText(Head(chain)) \o ChainText(Tail(chain))

\* a pipeline stage: {$match:{...}}, {$group:{_id:"$dept",n:{$sum:1}}},
\* {$sort:{n:-1}}, {$limit:1}, {$unwind:"$A"}, {$project:{name:1}},
\* {$group:{_id:"$dept",name:{$sum:1}}} ("groupname"), and
\* {$lookup:{from:"r",pipeline:[...],as:"A"}}, with let:{name:"$dept"} in
\* front of the pipeline key when the stage declares a variable
RECURSIVE PipelineText(_, _)
RECURSIVE StageText(_, _)
StageText(st, quoted) ==
  CASE st.op = "match" ->
         <<"{", Key("$match:", quoted)>> \o FilterText(st.conds, quoted)
           \o <<"}">>
    [] st.op = "group" ->
         <<"{", Key("$group:", quoted), "{", Key("_id:", quoted), "\"$dept\"",
           ",", Key("n:", quoted), "{", Key("$sum:", quoted), "1", "}", "}",
           "}">>
    [] st.op = "sort"  ->
         <<"{", Key("$sort:", quoted), "{", Key("n:", quoted), "-1", "}", "}">>
    [] st.op = "limit" -> <<"{", Key("$limit:", quoted), "1", "}">>
    [] st.op = "unwind" -> <<"{", "$unwind:", "\"$A\"", "}">>
    [] st.op = "project" ->
         <<"{", "$project:", "{", Key("name:", quoted), "1", "}", "}">>
    [] st.op = "groupname" ->
         <<"{", Key("$group:", quoted), "{", Key("_id:", quoted), "\"$dept\"",
           ",", Key("name:", quoted), "{", Key("$sum:", quoted), "1", "}", "}",
           "}">>
    [] st.op = "lookup" ->
         <<"{", "$lookup:", "{", "from:", "\"r\"", ",">>
           \o (IF st.let THEN <<"let:", "{", Key("name:", quoted),
                                "\"$dept\"", "}", ",">>
               ELSE <<>>)
           \o <<"pipeline:", "[">> \o PipelineText(st.sub, quoted)
           \o <<"]", ",", "as:", "\"A\"", "}", "}">>

PipelineText(pipeline, quoted) ==
  IF pipeline = <<>> THEN <<>>
  ELSE StageText(Head(pipeline), quoted)
         \o (IF Len(pipeline) > 1 THEN <<",">> ELSE <<>>)
         \o PipelineText(Tail(pipeline), quoted)

\* the text of a query
Render(q) ==
  IF q.shape = "find"
  THEN <<"db.c", ".find(">> \o FilterText(q.filter, q.quoted)
         \o ProjectionText(q.projection) \o <<")">> \o ChainText(q.chain)
  ELSE <<"db.c", ".aggregate(", "[">> \o PipelineText(q.pipeline, q.quoted)
         \o <<"]", ")", ";">>

FindQuery(f, p, c, qu) ==
  [shape |-> "find", filter |-> f, projection |-> p, chain |-> c,
   pipeline |-> <<>>, quoted |-> qu]

AggregateQuery(pl, qu) ==
  [shape |-> "aggregate", filter |-> <<>>, projection |-> "none",
   chain |-> <<>>, pipeline |-> pl, quoted |-> qu]

Match(conds) ==
  [op |-> "match", conds |-> conds, sub |-> <<>>, let |-> FALSE]

Stage(op) == [op |-> op, conds |-> <<>>, sub |-> <<>>, let |-> FALSE]

\* a $lookup stage with a sub-pipeline
Lookup(sub, let) ==
  [op |-> "lookup", conds |-> <<>>, sub |-> sub, let |-> let]

\* filters and $match documents of up to MaxConds conditions
MaxConds == 2

Filters == UNION {[1..n -> CondKinds] : n \in 0..MaxConds}

Chains == {<<>>, <<"sort">>, <<"limit">>, <<"sort", "limit">>,
           <<"limit", "sort">>, <<"count">>}

FindQueries ==
  {FindQuery(f, p, c, FALSE) :
     f \in Filters, p \in {"none", "empty", "some"}, c \in Chains}
  \cup {FindQuery(f, "none", <<>>, TRUE) : f \in Filters}

\* pipelines: one $match, alone or followed by $group, $sort and $limit
AggregateQueries ==
  {AggregateQuery(<<Match(f)>>, qu) :
     f \in Filters \ {<<>>}, qu \in BOOLEAN}
  \cup {AggregateQuery(<<Match(f), Stage("group"), Stage("sort"),
                         Stage("limit")>>, FALSE) : f \in Filters \ {<<>>}}

\* pipelines with $expr conditions, repeated stages, a computed key that is
\* a field of the schema, and $lookup stages with a sub-pipeline
ExprQueries ==
  {AggregateQuery(<<Match(f)>>, FALSE) :
     f \in {<<"expr_eq">>, <<"expr_gte">>, <<"expr_eq", "gt">>,
            <<"gt", "expr_eq">>}}

LookupQueries ==
  {AggregateQuery(<<Stage("unwind"),
                    Lookup(<<Stage("unwind"), Match(<<"expr_eq">>),
                             Stage("project")>>, TRUE),
                    Stage("unwind"), Stage("project")>>, FALSE),
   AggregateQuery(<<Lookup(<<Match(<<"eq">>), Stage("project")>>, FALSE),
                    Stage("unwind")>>, FALSE),
   AggregateQuery(<<Lookup(<<Match(<<"eq">>)>>, FALSE), Stage("unwind")>>,
                  FALSE)}

ShapeQueries ==
  {AggregateQuery(<<Match(<<"eq">>), Match(<<"eq">>)>>, FALSE),
   AggregateQuery(<<Match(<<"gt">>), Stage("groupname")>>, FALSE)}

ExtractorQueries ==
  FindQueries \cup AggregateQueries \cup ExprQueries \cup LookupQueries
    \cup ShapeQueries

(***************************************************************************)
(* mongodb_field_parser.py: the decoding field parser.  Its texts are      *)
(* decoded by demjson into document trees; a string here (a key, a field   *)
(* name, a collection name, a "$field" reference) is the sequence of its   *)
(* parts: a leading "$" is a part of its own and the names between the     *)
(* dots are the other parts, so "$Docs1.Name" is <<"$", "Docs1", "Name">>  *)
(* and "$$v" is <<"$", "$", "v">>.                                         *)
(*                                                                         *)
(* The state of an instance is the record                                  *)
(*   cf    collection_fields: its keys and its (collection, field) pairs   *)
(*   comp  computed_fields                                                 *)
(*   cur   current_collection                                              *)
(***************************************************************************)
NoCollection == <<>>

\* MongoFieldParser.__init__
NewParser ==
  [cf |-> [keys |-> {}, fields |-> {}], comp |-> {}, cur |-> NoCollection]

\* x.startswith("$")
StartsWithDollar(x) == x # <<>> /\ x[1] = "$"

\* x.strip("$") of a string that has its dollars in front
RECURSIVE StripDollar(_)
StripDollar(x) == IF StartsWithDollar(x) THEN StripDollar(Tail(x)) ELSE x

\* _should_exclude_field
should_exclude_field(s, field) ==
  \/ Len(field) >= 2 /\ field[1] = "$" /\ field[2] = "$"
  \/ Len(field) >= 2 /\ field[1] = "_id"
  \/ field \in s.comp

\* _add_field(field, collection)
add_field(s, field, collection) ==
  IF should_exclude_field(s, field) THEN s
  ELSE [s EXCEPT !.cf = [keys   |-> @.keys \cup {collection},
                         fields |-> @.fields \cup {<<collection, field>>}]]

\* _add_computed_field
add_computed_field(s, field) == [s EXCEPT !.comp = @ \cup {field}]

IsStr(v) == v.tag = "str"

IsDict(v) == v.tag = "dict"

IsList(v) == v.tag = "list"

\* isinstance(v, str) and v.startswith("$")
IsRef(v) == IsStr(v) /\ StartsWithDollar(v.val)

HasKey(d, k) == \E i \in 1..Len(d.keys) : d.keys[i] = k

\* for op, field in value.items(): a "$..." string operand is credited
\* without its first character (lines 242-244 and 259-261)
RECURSIVE CreditOperands(_, _, _)
CreditOperands(s, value, i) ==
  IF i > Len(value.kids) THEN s
  ELSE CreditOperands(IF IsRef(value.kids[i])
                        THEN add_field(s, Tail(value.kids[i].val), s.cur)
                      ELSE s,
                      value, i + 1)

RECURSIVE extract_fields_from_dict(_, _, _)
RECURSIVE FromItems(_, _, _, _)
RECURSIVE FromList(_, _, _, _)
RECURSIVE handle_expr_operator(_, _)
RECURSIVE ExprItems(_, _, _)
RECURSIVE ExprList(_, _, _)

\* _extract_fields_from_dict(d, parent)
extract_fields_from_dict(s, d, parent) ==
  IF ~IsDict(d) THEN s ELSE FromItems(s, d, parent, 1)

\* the loop of _extract_fields_from_dict from item i on
FromItems(s, d, parent, i) ==
  IF i > Len(d.keys) THEN s
  ELSE LET key      == d.keys[i]
           value    == d.kids[i]
           full_key == parent \o key
           s1 == IF key = <<"$", "expr">> THEN handle_expr_operator(s, value)
                 ELSE IF StartsWithDollar(key) THEN s
                 ELSE IF IsDict(value)
                   THEN extract_fields_from_dict(
                          IF \A k \in Range(value.keys) : StartsWithDollar(k)
                          THEN add_field(s, full_key, s.cur) ELSE s,
                          value, full_key)
                 ELSE IF IsList(value) THEN FromList(s, value.kids, full_key, 1)
                 ELSE add_field(s, full_key, s.cur)
       IN  FromItems(s1, d, parent, i + 1)

\* for item in value: the dicts of a list, lines 220-223
FromList(s, items, full_key, i) ==
  IF i > Len(items) THEN s
  ELSE FromList(IF IsDict(items[i])
                  THEN extract_fields_from_dict(s, items[i], full_key)
                ELSE s,
                items, full_key, i + 1)

\* _handle_expr_operator
handle_expr_operator(s, expr_value) ==
  IF ~IsDict(expr_value) THEN s ELSE ExprItems(s, expr_value, 1)

ExprItems(s, d, i) ==
  IF i > Len(d.keys) THEN s
  ELSE LET value == d.kids[i]
           s1 == IF IsList(value) THEN ExprList(s, value.kids, 1)
                 ELSE IF IsRef(value)
                   THEN (IF ~should_exclude_field(s, value.val)
                           THEN add_field(s, StripDollar(value.val), s.cur)
                         ELSE s)
                 ELSE IF IsDict(value)
                   THEN extract_fields_from_dict(s, value, <<>>)
                 ELSE s
       IN  ExprItems(s1, d, i + 1)

ExprList(s, items, i) ==
  IF i > Len(items) THEN s
  ELSE LET item == items[i]
           s1 == IF IsRef(item)
                   THEN (IF ~should_exclude_field(s, item.val)
                           THEN add_field(s, StripDollar(item.val), s.cur)
                         ELSE s)
                 ELSE IF IsDict(item)
                   THEN extract_fields_from_dict(s, item, <<>>)
                 ELSE s
       IN  ExprList(s1, items, i + 1)

\* _extract_group_fields
RECURSIVE extract_group_fields(_, _, _)
extract_group_fields(s, group_dict, i) ==
  IF i > Len(group_dict.keys) THEN s
  ELSE LET key   == group_dict.keys[i]
           value == group_dict.kids[i]
           s0 == IF key # <<"_id">> THEN add_computed_field(s, key) ELSE s
           s1 == IF key = <<"_id">>
                   THEN (IF IsRef(value) THEN add_field(s0, Tail(value.val), s0.cur)
                         ELSE IF IsDict(value) THEN CreditOperands(s0, value, 1)
                         ELSE s0)
                 ELSE IF IsDict(value) THEN CreditOperands(s0, value, 1)
                 ELSE s0
       IN  extract_group_fields(s1, group_dict, i + 1)

\* isinstance(value, (int, bool)) and value
Truthy(v) ==
  \/ v.tag = "int" /\ v.val # "0"
  \/ v.tag = "bool" /\ v.val = "True"

\* _extract_projection_fields
RECURSIVE extract_projection_fields(_, _, _)
extract_projection_fields(s, proj_dict, i) ==
  IF i > Len(proj_dict.keys) THEN s
  ELSE LET key   == proj_dict.keys[i]
           value == proj_dict.kids[i]
           s1 == IF StartsWithDollar(key) THEN s
                 ELSE IF Truthy(value) THEN add_field(s, key, s.cur)
                 ELSE IF IsRef(value) THEN add_field(s, Tail(value.val), s.cur)
                 ELSE IF IsDict(value)
                   THEN CreditOperands(add_computed_field(s, key), value, 1)
                 ELSE s
       IN  extract_projection_fields(s1, proj_dict, i + 1)

RECURSIVE parse_aggregate_stage(_, _)
RECURSIVE StageItems(_, _, _)
RECURSIVE ParseStages(_, _, _)
RECURSIVE extract_lookup_fields(_, _)
RECURSIVE SortKeys(_, _, _)

\* for field in value.keys(): the keys of $sort that are no operators
SortKeys(s, keys, i) ==
  IF i > Len(keys) THEN s
  ELSE SortKeys(IF ~StartsWithDollar(keys[i]) THEN add_field(s, keys[i], s.cur)
                ELSE s,
                keys, i + 1)

\* _parse_aggregate_stage
parse_aggregate_stage(s, stage) ==
  IF ~IsDict(stage) THEN s ELSE StageItems(s, stage, 1)

StageItems(s, stage, i) ==
  IF i > Len(stage.keys) THEN s
  ELSE LET operator == stage.keys[i]
           value    == stage.kids[i]
           s1 ==
             CASE operator = <<"$", "match">> ->
                    IF HasKey(value, <<"$", "expr">>)
                    THEN handle_expr_operator(s, DictGet(value, <<"$", "expr">>))
                    ELSE extract_fields_from_dict(s, value, <<>>)
               [] operator = <<"$", "group">> ->
                    extract_group_fields(s, value, 1)
               [] operator = <<"$", "project">> ->
                    extract_projection_fields(s, value, 1)
               [] operator = <<"$", "lookup">> ->
                    extract_lookup_fields(s, value)
               [] operator = <<"$", "unwind">> ->
                    IF IsStr(value)
                    THEN add_field(s, StripDollar(value.val), s.cur)
                    ELSE IF IsDict(value) /\ HasKey(value, <<"path">>)
                    THEN add_field(s, StripDollar(DictGet(value, <<"path">>).val),
                                   s.cur)
                    ELSE s
               [] operator = <<"$", "sort">> ->
                    IF IsDict(value) THEN SortKeys(s, value.keys, 1) ELSE s
               [] OTHER -> s
       IN  StageItems(s1, stage, i + 1)

\* for stage in pipeline: if isinstance(stage, dict): ...
ParseStages(s, pipeline, i) ==
  IF i > Len(pipeline) THEN s
  ELSE ParseStages(IF IsDict(pipeline[i])
                     THEN parse_aggregate_stage(s, pipeline[i])
                   ELSE s,
                   pipeline, i + 1)

\* _extract_lookup_fields
extract_lookup_fields(s, lookup_dict) ==
  IF ~IsDict(lookup_dict) THEN s
  ELSE LET original_collection == s.cur
           s1 == IF HasKey(lookup_dict, <<"as">>)
                   THEN add_computed_field(s, DictGet(lookup_dict, <<"as">>).val)
                 ELSE s
           s2 == IF HasKey(lookup_dict, <<"localField">>)
                   THEN add_field(s1, DictGet(lookup_dict, <<"localField">>).val,
                                  s1.cur)
                 ELSE s1
           s3 == IF HasKey(lookup_dict, <<"foreignField">>)
                      /\ HasKey(lookup_dict, <<"from">>)
                   THEN add_field(s2,
                                  DictGet(lookup_dict, <<"foreignField">>).val,
                                  DictGet(lookup_dict, <<"from">>).val)
                 ELSE s2
           s4 == IF HasKey(lookup_dict, <<"pipeline">>)
                      /\ HasKey(lookup_dict, <<"from">>)
                   THEN LET pipeline == DictGet(lookup_dict, <<"pipeline">>)
                            s31 == [s3 EXCEPT
                                      !.cur = DictGet(lookup_dict, <<"from">>).val]
                        IN  IF IsList(pipeline)
                            THEN ParseStages(s31, pipeline.kids, 1) ELSE s31
                 ELSE s3
       IN  [s4 EXCEPT !.cur = original_collection]

(***************************************************************************)
(* A text handed to parse_query is given by what the parser makes of it:   *)
(*   coll     query.split("db.", 1)[1].split(".", 1)[0], NoCollection for  *)
(*            a text without "db." (the subscript raises IndexError)       *)
(*   call     "find" with ".find(" in the text, else "aggregate" with      *)
(*            ".aggregate(" in it, else "none"                             *)
(*   decoded  what demjson.decode yields for the argument text after every *)
(*            repair the parser tries, Undecodable when all of them raise  *)
(***************************************************************************)
Undecodable == Scalar("undecodable", "")

QueryText(coll, call, decoded) ==
  [coll |-> coll, call |-> call, decoded |-> decoded]

\* _parse_find_query: any exception is printed and swallowed
parse_find_query(s, q) ==
  LET args == q.decoded
  IN  IF ~IsList(args) THEN s
      ELSE LET s1 == IF Len(args.kids) > 0 /\ IsDict(args.kids[1])
                       THEN extract_fields_from_dict(s, args.kids[1], <<>>)
                     ELSE s
           IN  IF Len(args.kids) > 1 /\ IsDict(args.kids[2])
               THEN extract_projection_fields(s1, args.kids[2], 1) ELSE s1

\* _parse_aggregate_query: any exception is printed and swallowed
parse_aggregate_query(s, q) ==
  LET pipeline == q.decoded
  IN  IF IsList(pipeline) THEN ParseStages(s, pipeline.kids, 1) ELSE s

\* parse_query with only collection_fields emptied at its start
parse_query_ResetFields(s, q) ==
  IF q.coll = NoCollection
  THEN [state |-> s, result |-> [keys |-> {}, fields |-> {}]]
  ELSE LET s0 == [s EXCEPT !.cur = q.coll,
                           !.cf = [keys |-> {q.coll}, fields |-> {}]]
           s1 == IF q.call = "find" THEN parse_find_query(s0, q)
                 ELSE IF q.call = "aggregate" THEN parse_aggregate_query(s0, q)
                 ELSE s0
       IN  [state |-> s1, result |-> s1.cf]

\* parse_query: the state it leaves and the value it returns, the fields of
\* every collection the instance has seen (a sorted list is its set)
parse_query(s, q) ==
  IF q.coll = NoCollection
  THEN [state |-> s, result |-> [keys |-> {}, fields |-> {}]]
  ELSE LET s0 == [s EXCEPT !.cur = q.coll, !.cf.keys = @ \cup {q.coll}]
           s1 == IF q.call = "find" THEN parse_find_query(s0, q)
                 ELSE IF q.call = "aggregate" THEN parse_aggregate_query(s0, q)
                 ELSE s0
       IN  [state |-> s1, result |-> s1.cf]

\* the strings "$x" and "x", the key "$op"
Ref(x) == Str(<<"$", x>>)

Name(x) == Str(<<x>>)

Op(x) == <<"$", x>>

\* {$op: value}
StageOf(op, value) == Dict(<<Op(op)>>, <<value>>)

\* {$lookup:{from:"r", localField:"rid", foreignField:"id", as:"A"}}
LookupAsA ==
  StageOf("lookup",
          Dict(<< <<"from">>, <<"localField">>, <<"foreignField">>, <<"as">> >>,
               <<Name("r"), Name("rid"), Name("id"), Name("A")>>))

\* {$lookup:{from:"r", let:{v:"$rid"}, pipeline:[{$match:{$expr:{$eq:
\* ["$id","$$v"]}}}], as:"A"}}
LookupPipeline ==
  StageOf("lookup",
          Dict(<< <<"from">>, <<"let">>, <<"pipeline">>, <<"as">> >>,
               <<Name("r"),
                 Dict(<< <<"v">> >>, <<Ref("rid")>>),
                 List(<<StageOf("match",
                          Dict(<<Op("expr")>>,
                               <<Dict(<<Op("eq")>>,
                                      <<List(<<Ref("id"),
                                               Str(<<"$", "$", "v">>)>>)>>)>>))>>),
                 Name("A")>>))

\* {$unwind:"$x"}
Unwind(x) == StageOf("unwind", Ref(x))

\* {$match:{x:1}}
MatchKey(x) == StageOf("match", Dict(<< <<x>> >>, <<Num("1")>>))

\* {$match:{age:{$gt:30}}}
MatchAge ==
  StageOf("match", Dict(<< <<"age">> >>, <<Dict(<<Op("gt")>>, <<Num("30")>>)>>))

\* {$project:{x:1}}
ProjectKey(x) == StageOf("project", Dict(<< <<x>> >>, <<Num("1")>>))

\* {$project:{out:"$x"}}
ProjectValue(x) == StageOf("project", Dict(<< <<"out">> >>, <<Ref(x)>>))

\* {$sort:{x:-1}}
SortKey(x) == StageOf("sort", Dict(<< <<x>> >>, <<Num("-1")>>))

\* {$limit:1}
Limit == StageOf("limit", Num("1"))

\* {$group:{_id:"$dept", n:{$sum:1}}}
GroupCount ==
  StageOf("group", Dict(<< <<"_id">>, <<"n">> >>,
                        <<Ref("dept"), Dict(<<Op("sum")>>, <<Num("1")>>)>>))

\* {$group:{_id:{d:"$dept"}, n:{$sum:"$price"}}}
GroupSum ==
  StageOf("group", Dict(<< <<"_id">>, <<"n">> >>,
                        <<Dict(<< <<"d">> >>, <<Ref("dept")>>),
                          Dict(<<Op("sum")>>, <<Ref("price")>>)>>))

\* {$group:{_id:"$dept", price:{$sum:"$price"}}}
GroupSame ==
  StageOf("group", Dict(<< <<"_id">>, <<"price">> >>,
                        <<Ref("dept"), Dict(<<Op("sum")>>, <<Ref("price")>>)>>))

\* {$match:{"x.y":1}}
MatchPath(x, y) == StageOf("match", Dict(<< <<x, y>> >>, <<Num("1")>>))

\* {$project:{out:"$x.y"}}
ProjectPath(x, y) ==
  StageOf("project", Dict(<< <<"out">> >>, <<Str(<<"$", x, y>>)>>))

\* {$project:{total:{$sum:"$price"}}}
ProjectExpr ==
  StageOf("project",
          Dict(<< <<"total">> >>, <<Dict(<<Op("sum")>>, <<Ref("price")>>)>>))

\* {$group:{_id:"$dept", docs:{$push:"$$ROOT"}}}
GroupRoot ==
  StageOf("group", Dict(<< <<"_id">>, <<"docs">> >>,
                        <<Ref("dept"),
                          Dict(<<Op("push")>>, <<Str(<<"$", "$", "ROOT">>)>>)>>))

\* {$or:[{a:1},{b:{$gt:2}}]}
OrFilter ==
  Dict(<<Op("or")>>,
       <<List(<<Dict(<< <<"a">> >>, <<Num("1")>>),
                Dict(<< <<"b">> >>, <<Dict(<<Op("gt")>>, <<Num("2")>>)>>)>>)>>)

\* the stages that name x verbatim
Mentioning(x) ==
  {Unwind(x), MatchKey(x), ProjectKey(x), ProjectValue(x), SortKey(x)}

Pipeline(coll, stages) == QueryText(coll, "aggregate", List(stages))

\* db.c.find({status:"open"},{name:1,_id:0})
FindOpen ==
  QueryText(<<"c">>, "find",
            List(<<Dict(<< <<"status">> >>, <<Name("open")>>),
                   Dict(<< <<"name">>, <<"_id">> >>, <<Num("1"), Num("0")>>)>>))

\* the texts parse_query is called with
ParserQueries ==
  {Pipeline(<<"c">>, <<LookupAsA, m>>) : m \in Mentioning("A")}
  \cup {Pipeline(<<"c">>, <<MatchAge, GroupCount, m, Limit>>) :
          m \in Mentioning("n")}
  \cup {Pipeline(<<"c">>, <<Unwind("A"), LookupAsA>>),
        Pipeline(<<"c">>, <<MatchKey("A")>>),
        Pipeline(<<"c">>, <<SortKey("n")>>),
        Pipeline(<<"c">>, <<MatchAge, GroupSum, SortKey("n"), Limit>>),
        Pipeline(<<"c">>, <<MatchAge, GroupSame, SortKey("price"), Limit>>),
        Pipeline(<<"c">>, <<LookupPipeline, Unwind("A")>>),
        Pipeline(<<"d">>, <<MatchKey("dept")>>),
        Pipeline(<<"c">>, <<LookupAsA, MatchPath("A", "city")>>),
        Pipeline(<<"c">>, <<LookupAsA, ProjectPath("A", "Name")>>),
        Pipeline(<<"c">>, <<ProjectExpr, SortKey("total")>>),
        Pipeline(<<"c">>, <<MatchAge, GroupRoot>>),
        Pipeline(<<"c">>, <<StageOf("match", OrFilter)>>),
        QueryText(<<"c">>, "find", List(<<OrFilter>>)),
        FindOpen,
        QueryText(<<"c">>, "find", Undecodable),
        QueryText(<<"c">>, "aggregate", Undecodable),
        QueryText(<<"c">>, "none", Undecodable),
        QueryText(NoCollection, "none", Undecodable)}

\* calls of parse_query made on one instance
MaxCalls == 3

(***************************************************************************)
(* The extractors at work.  In a run on one text (stPc from "start" to     *)
(* "done") get_query_stages and extract_fields are each called twice on    *)
(* the text of stQuery; in a run on one parser instance (stPc = "parser")  *)
(* parse_query is called with one text after another.                      *)
(***************************************************************************)
StagesIdle ==
  /\ stPc = "idle" /\ stQuery = FindQuery(<<>>, "none", <<>>, FALSE)
  /\ stDb = "hr_1" /\ stStages = <<>> /\ stAgain = <<>>
  /\ stFields = {} /\ stFieldsAgain = {} /\ stRaised = <<>>

ParserIdle ==
  /\ collection_fields = NewParser.cf /\ computed_fields = NewParser.comp
  /\ current_collection = NewParser.cur /\ parsed = <<>>

ExtIdle == StagesIdle /\ ParserIdle

\* stages = get_query_stages(query)
GetQueryStages ==
  /\ stPc = "start"
  /\ stStages' = get_query_stages(Render(stQuery))
  /\ stPc' = "staged"
  /\ UNCHANGED <<stQuery, stDb, stAgain, stFields, stFieldsAgain, stRaised>>
  /\ UNCHANGED <<cmpVars, batchVars, parserVars>>

\* the same call once more
GetQueryStagesAgain ==
  /\ stPc = "staged"
  /\ stAgain' = get_query_stages(Render(stQuery))
  /\ stPc' = "restaged"
  /\ UNCHANGED <<stQuery, stDb, stStages, stFields, stFieldsAgain, stRaised>>
  /\ UNCHANGED <<cmpVars, batchVars, parserVars>>

\* fields = extract_fields(query, db_name): the constructor raises without
\* a schema file
ExtractFields ==
  /\ stPc = "restaged"
  /\ IF SchemaLoads(stDb)
     THEN /\ stFields' = extract_fields(Render(stQuery), stDb)
          /\ stRaised' = Append(stRaised, FALSE)
     ELSE /\ stFields' = stFields
          /\ stRaised' = Append(stRaised, TRUE)
  /\ stPc' = "fields"
  /\ UNCHANGED <<stQuery, stDb, stStages, stAgain, stFieldsAgain>>
  /\ UNCHANGED <<cmpVars, batchVars, parserVars>>

\* the same call once more
ExtractFieldsAgain ==
  /\ stPc = "fields"
  /\ IF SchemaLoads(stDb)
     THEN /\ stFieldsAgain' = extract_fields(Render(stQuery), stDb)
          /\ stRaised' = Append(stRaised, FALSE)
     ELSE /\ stFieldsAgain' = stFieldsAgain
          /\ stRaised' = Append(stRaised, TRUE)
  /\ stPc' = "done"
  /\ UNCHANGED <<stQuery, stDb, stStages, stAgain, stFields>>
  /\ UNCHANGED <<cmpVars, batchVars, parserVars>>

\* the state of the instance
Parser ==
  [cf |-> collection_fields, comp |-> computed_fields,
   cur |-> current_collection]

\* fields = parser.parse_query(query)
ParseQuery(q) ==
  /\ stPc = "parser"
  /\ Len(parsed) < MaxCalls
  /\ LET r == parse_query(Parser, q)
     IN  /\ collection_fields' = r.state.cf
         /\ computed_fields' = r.state.comp
         /\ current_collection' = r.state.cur
         /\ parsed' = Append(parsed, [query |-> q, result |-> r.result])
  /\ UNCHANGED <<cmpVars, batchVars, stageVars>>

\* parser = MongoFieldParser(): the calls go to a new instance from here on
Construct ==
  /\ stPc = "parser"
  /\ parsed # <<>>
  /\ collection_fields' = NewParser.cf /\ computed_fields' = NewParser.comp
  /\ current_collection' = NewParser.cur /\ parsed' = <<>>
  /\ UNCHANGED <<cmpVars, batchVars, stageVars>>

\* the text a body stands for, with leading whitespace in the second layout
TextOf(q) ==
  LET t == CASE q.body = "find"  ->
                  Render(FindQuery(<<"eq">>, "none", <<>>, FALSE))
             [] q.body = "chain" ->
                  Render(FindQuery(<<"eq">>, "none", <<"limit">>, FALSE))
             [] q.body = "agg"   ->
                  Render(AggregateQuery(<<Match(<<"gt">>), Stage("group")>>,
                                        FALSE))
             [] OTHER            -> <<>>
  IN  IF q.ws = 1 THEN <<" ">> \o t ELSE t

\* get_query_stages: query.strip() raises on a value that is not a text
StagesRaises(q) == q.kind # "str"



\* extract_fields: the constructor raises without a schema file, parse_query
\* raises on query.split() of a value that is not a text
FieldsRaises(q, db_id) == ~SchemaLoads(db_id) \/ q.kind # "str"


\* self.client[db_id]: the driver refuses an empty name (and one with a
\* space, a dot, '$', '/', '\', NUL or '"') with InvalidName
ValidDbName(db_id) == db_id # ""

\* _norm_cache_key: f"{db_id}||{_norm_ws(query)}"
NormCacheKey(db_id, q) == <<db_id, norm_ws(q)>>

Keys == {"hr_1"} \X {"find", "chain", ""}

\* _try_parse_aggregate / _try_parse_find on the text split off the key
FastPathMatches(text) == text \in {"find", "agg"}

\* the static part of compare: EM, QSM and QFC, each raising metric 0
StaticErrs(ex) ==
  (IF StagesRaises(ex.target) \/ StagesRaises(ex.prediction)
   THEN {"QSM"} ELSE {})
  \cup
  (IF FieldsRaises(ex.target, ex.db_id) \/ FieldsRaises(ex.prediction, ex.db_id)
   THEN {"QFC"} ELSE {})

StaticMetrics(ex) ==
  [EM  |-> B2I(norm_ws(ex.target) = norm_ws(ex.prediction)),
   QSM |-> IF "QSM" \in StaticErrs(ex) THEN 0
           ELSE B2I(get_query_stages(TextOf(ex.target))
                      = get_query_stages(TextOf(ex.prediction))),
   QFC |-> IF "QFC" \in StaticErrs(ex) THEN 0
           ELSE B2I(extract_fields(TextOf(ex.target), ex.db_id)
                      = extract_fields(TextOf(ex.prediction), ex.db_id)),
   EX |-> 0, EFM |-> 0, EVM |-> 0]

ZeroMetrics == [m \in MetricsList |-> 0]

(***************************************************************************)
(* functools.lru_cache: a hit makes the entry the most recent; a miss      *)
(* stores the new entry, dropping the least recent one of a full cache.    *)
(***************************************************************************)
CacheHas(c, k) == \E j \in 1..Len(c) : c[j].key = k

CacheGet(c, k) == c[CHOOSE j \in 1..Len(c) : c[j].key = k].val

CacheTouch(c, k) ==
  SelectSeq(c, LAMBDA e : e.key # k) \o SelectSeq(c, LAMBDA e : e.key = k)

CacheFull(c) == Len(c) >= CacheSize

\* a cache that keeps nothing
CacheStore_Drop(c, k, v) == c

CacheStore(c, k, v) ==
  Append(IF CacheFull(c) THEN Tail(c) ELSE c, [key |-> k, val |-> v])

\* a sum that keeps the last example only
Tally_Last(sum, ex_metrics) ==
  [m \in MetricsList |-> IF ex_metrics[m] # 0 THEN 1 ELSE 0]

\* metrics_sum[k] += 1 if v else 0, for every metric of the returned dict
Tally(sum, ex_metrics) ==
  [m \in MetricsList |-> sum[m] + (IF ex_metrics[m] # 0 THEN 1 ELSE 0)]

\* metrics_sum[k] / total if total else 0.0, the quotient as <<num, den>>
Mean(sum_k, total) == IF total # 0 THEN <<sum_k, total>> ELSE <<0, 1>>

\* nothing was written to wrong_examples_path
NotSaved == [written |-> FALSE, list |-> <<>>]

BatchInit ==
  /\ pc = "loop" /\ side = "gold"
  /\ N \in 0..MaxExamples /\ pos = 0 /\ cur = NoExample
  /\ metrics = ZeroMetrics /\ result_gold = NoTree /\ result_pred = NoTree
  /\ cache = <<>>
  /\ metrics_sum = ZeroMetrics /\ wrong_examples = <<>>
  /\ report = [m \in MetricsList |-> <<0, 0>>]
  /\ saved = NotSaved /\ verdicts = <<>>
  /\ handed = <<>>
  /\ execCount = [k \in Keys |-> 0] /\ evictCount = [k \in Keys |-> 0]
  /\ attempts = <<>> /\ timedOut = FALSE /\ errs = {} /\ escaped = FALSE
  /\ outcome = "none" /\ failed = {}

\* the batch variables while only the comparison is studied
BatchIdle == BatchInit /\ N = 0

\* both queries are about to run on the fast path: what each returns
CmpInit ==
  /\ cmpPc = "exec"
  /\ bsonGold \in ResultsOver(DocUniverse) /\ bsonPred \in ResultsOver(DocUniverse)
  /\ pathGold = "native" /\ pathPred = "native"
  /\ cmpGold = NoTree /\ cmpPred = NoTree /\ cmpMetrics = NoMetrics
  /\ BatchIdle /\ ExtIdle

\* both queries are about to run, each on either path
PathInit ==
  /\ cmpPc = "exec"
  /\ pathGold \in Paths /\ pathPred \in Paths
  /\ bsonGold \in ResultsOn(pathGold) /\ bsonPred \in ResultsOn(pathPred)
  /\ cmpGold = NoTree /\ cmpPred = NoTree /\ cmpMetrics = NoMetrics
  /\ BatchIdle /\ ExtIdle

\* compare, lines 374-449: both results through the cache, then the metrics
CmpExec ==
  /\ cmpPc = "exec"
  /\ LET g == GetQueryResultOf(PathView(pathGold, bsonGold))
         p == GetQueryResultOf(PathView(pathPred, bsonPred))
     IN  /\ cmpGold' = g
         /\ cmpPred' = p
         /\ cmpMetrics' = ExecMetrics(g, p)
  /\ cmpPc' = "done"
  /\ UNCHANGED <<bsonGold, bsonPred, pathGold, pathPred>>
  /\ UNCHANGED <<batchVars, extVars>>

CmpNext == CmpExec

SpecCmp == CmpInit /\ [][CmpNext]_vars

SpecPath == PathInit /\ [][CmpNext]_vars

CmpIdle ==
  /\ cmpPc = "idle" /\ bsonGold = NoTree /\ bsonPred = NoTree
  /\ pathGold = "native" /\ pathPred = "native"
  /\ cmpGold = NoTree /\ cmpPred = NoTree /\ cmpMetrics = NoMetrics

Init == BatchInit /\ CmpIdle /\ ExtIdle

\* the query and the cache key of the _get_query_result call in progress
CurQuery == IF side = "gold" THEN cur.target ELSE cur.prediction

CurKey == NormCacheKey(cur.db_id, CurQuery)

\* result_gold = ... (line 374) or result_pred = ... (line 375)
SetResult(r) ==
  IF side = "gold"
  THEN result_gold' = r /\ UNCHANGED result_pred
  ELSE result_pred' = r /\ UNCHANGED result_gold

\* after line 374 comes line 375, after line 375 the metrics
Advance ==
  IF side = "gold"
  THEN side' = "pred" /\ pc' = "get_result"
  ELSE side' = side /\ pc' = "metrics"

\* the entry of key k is stored: the cache, and who was dropped for it
Store(k, frozen) ==
  /\ cache' = CacheStore(cache, k, frozen)
  /\ evictCount' =
       [x \in Keys |->
          IF CacheHas(cache, x) /\ ~CacheHas(cache', x)
          THEN evictCount[x] + 1 ELSE evictCount[x]]

aggVars == <<metrics_sum, wrong_examples, report, saved, verdicts>>

\* the loop body is left: example, metric and the locals of compare are dead
\* until the next iteration assigns them
EndIteration ==
  /\ cur' = NoExample /\ metrics' = ZeroMetrics
  /\ result_gold' = NoTree /\ result_pred' = NoTree
  /\ side' = "gold" /\ attempts' = <<>>
  /\ timedOut' = FALSE /\ errs' = {} /\ escaped' = FALSE
  /\ outcome' = "none"

(***************************************************************************)
(* calculate, lines 513-529, when compare raises: EM is computed outside   *)
(* any try (line 344), so _norm_ws of a value that has no strip() leaves   *)
(* compare and reaches the except of line 528.                             *)
(***************************************************************************)
CompareRaises(ex) ==
  /\ pc = "loop" /\ pos < N
  /\ NormRaises(ex.target) \/ NormRaises(ex.prediction)
  /\ pos' = pos + 1 /\ cur' = ex
  /\ handed' = Append(handed, pos + 1)
  /\ metrics' = ZeroMetrics
  /\ errs' = {"EM"} /\ outcome' = "raised"
  /\ failed' = failed \cup {pos + 1}
  /\ timedOut' = FALSE /\ escaped' = FALSE /\ attempts' = <<>>
  /\ pc' = "except"
  /\ UNCHANGED <<side, N, result_gold, result_pred, cache, execCount,
                 evictCount, aggVars, cmpVars, extVars>>

\* an except clause that gives the batch up
ExceptHandler_Abort ==
  /\ pc = "except"
  /\ verdicts' = IF outcome = "raised"
                 THEN Append(verdicts, [raised |-> TRUE, metrics |-> ZeroMetrics])
                 ELSE verdicts
  /\ EndIteration
  /\ pc' = "done"
  /\ UNCHANGED <<N, pos, cache, execCount, evictCount, failed, handed,
                 metrics_sum, wrong_examples, report, saved, cmpVars, extVars>>

\* calculate, lines 528-529: the exception is printed, the loop goes on
ExceptHandler ==
  /\ pc = "except"
  /\ verdicts' = IF outcome = "raised"
                 THEN Append(verdicts, [raised |-> TRUE, metrics |-> ZeroMetrics])
                 ELSE verdicts
  /\ EndIteration
  /\ pc' = "loop"
  /\ UNCHANGED <<N, pos, cache, execCount, evictCount, failed, handed,
                 metrics_sum, wrong_examples, report, saved, cmpVars, extVars>>

(***************************************************************************)
(* compare, lines 336-370: EM, then QSM and QFC each in its own try.       *)
(***************************************************************************)
CompareStatic(ex) ==
  /\ pc = "loop" /\ pos < N
  /\ ~NormRaises(ex.target) /\ ~NormRaises(ex.prediction)
  /\ pos' = pos + 1 /\ cur' = ex
  /\ handed' = Append(handed, pos + 1)
  /\ metrics' = StaticMetrics(ex)
  /\ errs' = StaticErrs(ex) /\ outcome' = "running"
  /\ failed' = IF StaticErrs(ex) # {} THEN failed \cup {pos + 1} ELSE failed
  /\ timedOut' = FALSE /\ escaped' = FALSE /\ attempts' = <<>>
  /\ result_gold' = NoTree /\ result_pred' = NoTree
  /\ side' = "gold" /\ pc' = "get_result"
  /\ UNCHANGED <<N, cache, execCount, evictCount, aggVars, cmpVars, extVars>>

\* _get_query_result, lines 317-318, on a key the cache holds
CacheHit ==
  /\ pc = "get_result" /\ CacheHas(cache, CurKey)
  /\ cache' = CacheTouch(cache, CurKey)
  /\ SetResult(thaw(CacheGet(cache, CurKey)))
  /\ attempts' = <<>>
  /\ Advance
  /\ UNCHANGED <<N, pos, cur, metrics, execCount, evictCount, timedOut, errs,
                 escaped, outcome, failed, handed, aggVars, cmpVars, extVars>>

(***************************************************************************)
(* _cached_exec, line 272: self.client[db_id] raises before any strategy;  *)
(* nothing is cached, and the except of compare (lines 451-453) zeroes     *)
(* EX, EFM and EVM.                                                        *)
(***************************************************************************)
ExecEscapes ==
  /\ pc = "get_result" /\ ~CacheHas(cache, CurKey)
  /\ ~ValidDbName(cur.db_id)
  /\ metrics' = [metrics EXCEPT !.EX = 0, !.EFM = 0, !.EVM = 0]
  /\ errs' = errs \cup {"EX", "EFM", "EVM"}
  /\ escaped' = TRUE /\ outcome' = "returned"
  /\ failed' = failed \cup {pos}
  /\ attempts' = <<>>
  /\ pc' = "accumulate"
  /\ UNCHANGED <<side, N, pos, cur, result_gold, result_pred, cache,
                 execCount, evictCount, timedOut, handed, aggVars, cmpVars, extVars>>

\* _cached_exec, lines 271-289: a miss runs the body; the text decides
\* whether a fast path is tried
CachedExecStart ==
  /\ pc = "get_result" /\ ~CacheHas(cache, CurKey)
  /\ ValidDbName(cur.db_id)
  /\ execCount' = [execCount EXCEPT ![CurKey] = @ + 1]
  /\ attempts' = <<>>
  /\ pc' = IF FastPathMatches(CurKey[2]) THEN "native" ELSE "shell"
  /\ UNCHANGED <<side, N, pos, cur, metrics, result_gold, result_pred, cache,
                 evictCount, timedOut, errs, escaped, outcome, failed, handed,
                 aggVars, cmpVars, extVars>>

\* lines 278-282 / 291-293: the native call answers with documents
NativeReturns(r) ==
  /\ pc = "native"
  /\ attempts' = Append(attempts, "A")
  /\ Store(CurKey, freeze(NativeView(r)))
  /\ SetResult(thaw(freeze(NativeView(r))))
  /\ Advance
  /\ UNCHANGED <<N, pos, cur, metrics, execCount, timedOut, errs, escaped,
                 outcome, failed, handed, aggVars, cmpVars, extVars>>

\* lines 283-285 / 294-296: the native call raises, fall through to the shell
NativeRaises ==
  /\ pc = "native"
  /\ attempts' = Append(attempts, "A")
  /\ pc' = "shell"
  /\ UNCHANGED <<side, N, pos, cur, metrics, result_gold, result_pred, cache,
                 execCount, evictCount, timedOut, errs, escaped, outcome,
                 failed, handed, aggVars, cmpVars, extVars>>

\* lines 299-310 with execute_query lines 243-273: mongosh prints the result
ShellReturns(r) ==
  /\ pc = "shell" /\ CurKey[2] # ""
  /\ attempts' = Append(attempts, "B")
  /\ Store(CurKey, freeze(ShellView(r)))
  /\ SetResult(thaw(freeze(ShellView(r))))
  /\ Advance
  /\ UNCHANGED <<N, pos, cur, metrics, execCount, timedOut, errs, escaped,
                 outcome, failed, handed, aggVars, cmpVars, extVars>>

(***************************************************************************)
(* execute_query, lines 254-261 and 275-279: on stderr output, on the      *)
(* error marker, on subprocess.TimeoutExpired and on any other exception   *)
(* the executor returns [] (get_str is False), which is cached like any    *)
(* result.                                                                 *)
(***************************************************************************)
ShellFails(how) ==
  /\ pc = "shell"
  /\ attempts' = Append(attempts, "B")
  /\ Store(CurKey, freeze(List(<<>>)))
  /\ SetResult(thaw(freeze(List(<<>>))))
  /\ timedOut' = (timedOut \/ how = "timeout")
  /\ failed' = failed \cup {pos}
  /\ Advance
  /\ UNCHANGED <<N, pos, cur, metrics, execCount, errs, escaped, outcome,
                 handed, aggVars, cmpVars, extVars>>

\* compare, lines 426-449 and 455-457
ExecBlock ==
  /\ pc = "metrics"
  /\ LET m == ExecMetrics(result_gold, result_pred)
     IN  metrics' = [metrics EXCEPT !.EX = m.EX, !.EFM = m.EFM, !.EVM = m.EVM]
  /\ outcome' = "returned"
  /\ pc' = "accumulate"
  /\ UNCHANGED <<side, N, pos, cur, result_gold, result_pred, cache,
                 execCount, evictCount, attempts, timedOut, errs, escaped,
                 failed, handed, aggVars, cmpVars, extVars>>

(***************************************************************************)
(* calculate, lines 521-529: the sums, then the wrong example.             *)
(* _format_example reads example['NLQ']: without that key it raises after  *)
(* the sums were added, and the except of line 528 drops the entry.        *)
(***************************************************************************)
Accumulate ==
  /\ pc = "accumulate"
  /\ metrics_sum' = Tally(metrics_sum, metrics)
  /\ verdicts' = Append(verdicts, [raised |-> FALSE, metrics |-> metrics])
  /\ IF metrics.EX = 0 /\ ~cur.hasNLQ
     THEN /\ failed' = failed \cup {pos}
          /\ pc' = "except"
          /\ UNCHANGED <<wrong_examples, side, cur, metrics, result_gold,
                         result_pred, attempts, timedOut, errs, escaped,
                         outcome>>
     ELSE /\ wrong_examples' =
               IF metrics.EX = 0
               THEN Append(wrong_examples, [pos |-> pos, flag |-> metrics.EX = 1])
               ELSE wrong_examples
          /\ EndIteration
          /\ pc' = "loop"
          /\ UNCHANGED failed
  /\ UNCHANGED <<N, pos, cache, execCount, evictCount, handed, report, saved,
                 cmpVars, extVars>>

\* calculate, lines 532-553: the means, and the wrong examples written to
\* wrong_examples_path if the caller asked for it (need_save)
Finish(need_save) ==
  /\ pc = "loop" /\ pos = N
  /\ report' = [m \in MetricsList |-> Mean(metrics_sum[m], N)]
  /\ saved' = IF need_save THEN [written |-> TRUE, list |-> wrong_examples]
              ELSE saved
  /\ pc' = "done"
  /\ UNCHANGED <<side, N, pos, cur, metrics, result_gold, result_pred, cache,
                 execCount, evictCount, attempts, timedOut, errs, escaped,
                 outcome, failed, handed, metrics_sum, wrong_examples,
                 verdicts, cmpVars, extVars>>

Next ==
  \/ \E ex \in Examples : CompareRaises(ex)
  \/ ExceptHandler
  \/ \E ex \in Examples : CompareStatic(ex)
  \/ CacheHit
  \/ ExecEscapes
  \/ CachedExecStart
  \/ \E r \in ExecResults : NativeReturns(r)
  \/ NativeRaises
  \/ \E r \in ExecResults : ShellReturns(r)
  \/ \E how \in {"error", "timeout"} : ShellFails(how)
  \/ ExecBlock
  \/ Accumulate
  \/ \E need_save \in BOOLEAN : Finish(need_save)

Spec == Init /\ [][Next]_vars

\* a sequential loop takes its next step: every call of the loop body
\* returns (the shell call within its timeout, the native call by the
\* server's answer or the driver's exception)
FairSpec == Spec /\ WF_vars(Next)

(***************************************************************************)
(* The extractors on their own: one text through the stage extractor and   *)
(* the schema-based field extractor, or one instance of the decoding field *)
(* parser through a series of calls.                                       *)
(***************************************************************************)
StagesInit ==
  /\ stPc = "start" /\ stQuery \in ExtractorQueries /\ stDb \in DbIds
  /\ stStages = <<>> /\ stAgain = <<>>
  /\ stFields = {} /\ stFieldsAgain = {} /\ stRaised = <<>>
  /\ ParserIdle

ParserInit ==
  /\ stPc = "parser" /\ stQuery = FindQuery(<<>>, "none", <<>>, FALSE)
  /\ stDb = "hr_1" /\ stStages = <<>> /\ stAgain = <<>>
  /\ stFields = {} /\ stFieldsAgain = {} /\ stRaised = <<>>
  /\ ParserIdle

ExtractInit == BatchIdle /\ CmpIdle /\ (StagesInit \/ ParserInit)

ExtractNext ==
  \/ GetQueryStages
  \/ GetQueryStagesAgain
  \/ ExtractFields
  \/ ExtractFieldsAgain
  \/ \E q \in ParserQueries : ParseQuery(q)
  \/ Construct

SpecExtract == ExtractInit /\ [][ExtractNext]_vars

(***************************************************************************)
(* The EX rule as the specification words it: objects are equal iff they   *)
(* have the same key set and equal values per key, sequences iff they have *)
(* the same length and equal items in order, scalars iff identical.  Canon *)
(* puts the keys of every object in one order, after which the rule is     *)
(* equality of the trees.                                                  *)
(***************************************************************************)
RECURSIVE Canon(_)
Canon(x) ==
  IF x.tag = "dict"
  THEN LET sk == SortedKeys(Range(x.keys))
       IN  Dict(sk, [i \in 1..Len(sk) |-> Canon(DictGet(x, sk[i]))])
  ELSE IF IsSeq(x)
  THEN List([i \in 1..Len(x.kids) |-> Canon(x.kids[i])])
  ELSE x

StructEq(a, b) == Canon(a) = Canon(b)

Min(m, n) == IF m < n THEN m ELSE n

\* the documents of a result as compare walks them
DocsOf(r) == Iter(r)

\* compare has returned its metrics for the current example
Compared == pc = "accumulate"

\* C1: comparing a query text with itself on any database id gives
\* EM = QSM = QFC = EX = EFM = EVM = 1, also when the schema file cannot be
\* loaded and when the execution fails or is served from the cache.
C1_Reflexivity ==
  (Compared /\ cur.target.kind = "str" /\ cur.prediction = cur.target)
    => \A m \in MetricsList : metrics[m] = 1

\* C2: an error while computing one metric zeroes that metric only: compare
\* still returns, and every metric whose computation raised nothing has the
\* value it has without the error.
C2_ErrorIsolation ==
  (pc \in {"accumulate", "except"} /\ errs # {}) =>
    /\ outcome = "returned"
    /\ "QSM" \notin errs =>
         metrics.QSM = B2I(get_query_stages(TextOf(cur.target)) =
                           get_query_stages(TextOf(cur.prediction)))
    /\ "QFC" \notin errs =>
         metrics.QFC = B2I(extract_fields(TextOf(cur.target), cur.db_id) =
                           extract_fields(TextOf(cur.prediction), cur.db_id))
    /\ "EX" \notin errs =>
         metrics.EX = ExecMetrics(result_gold, result_pred).EX

\* C3: every example is handed to compare exactly once in dataset order,
\* whatever failed on the examples before it, calculate returns only after
\* the last one with the means over all N, and it does return.
C3_BatchProgress ==
  /\ [](handed = [k \in 1..pos |-> k])
  /\ [](pc = "done" =>
          /\ pos = N
          /\ report = [m \in MetricsList |-> Mean(metrics_sum[m], N)])
  /\ <>(pc = "done")

\* C3 witness: a batch of two examples has returned although compare raised
\* on the first and an execution of the second timed out or failed.
C3_Witness ==
  /\ pc = "done" /\ N = 2 /\ failed = {1, 2}
  /\ handed = <<1, 2>>
  /\ report.EM = <<0, 2>>

\* C4: when the execution of the gold or of the predicted query exceeds the
\* timeout, the example gets EX = 0, EFM = 0 and EVM = 0.
C4_TimeoutZeroes ==
  (Compared /\ timedOut) =>
    metrics.EX = 0 /\ metrics.EFM = 0 /\ metrics.EVM = 0

\* C5 as stated: in one run a key is executed against the database at most
\* once, no entry is ever dropped.
C5_ExecutedAtMostOnce ==
  \A k \in Keys : execCount[k] <= 1 /\ evictCount[k] = 0

\* the body of _cached_exec is running for key k
Executing(k) == pc \in {"native", "shell"} /\ CurKey = k

\* C5 amended: a key is executed once per stay in the cache - its executions
\* are its evictions plus one if it is cached or being executed - the cache
\* never holds more than its capacity, and a run with no more distinct keys
\* than the capacity evicts nothing and executes each key at most once.
C5_ExecutedOncePerResidency ==
  /\ Len(cache) <= CacheSize
  /\ \A k \in Keys :
       execCount[k] =
         evictCount[k] + (IF CacheHas(cache, k) \/ Executing(k) THEN 1 ELSE 0)
  /\ Cardinality({k \in Keys : execCount[k] > 0}) <= CacheSize
       => \A k \in Keys : evictCount[k] = 0 /\ execCount[k] <= 1

\* C5 witness: a key was executed, evicted by later keys, requested again
\* and executed a second time.
C5_Witness ==
  \E k \in Keys :
    execCount[k] = 2 /\ evictCount[k] = 1 /\ CacheHas(cache, k)

\* C6: the native call is attempted first when the text has one of the two
\* shapes, the shell exactly when the native call did not apply or raised,
\* and no exception leaves the execution layer.
C6_StrategyOrder ==
  /\ pc = "native" => attempts = <<>> /\ FastPathMatches(CurKey[2])
  /\ pc = "shell" =>
       \/ attempts = <<>> /\ ~FastPathMatches(CurKey[2])
       \/ attempts = <<"A">> /\ FastPathMatches(CurKey[2])
  /\ attempts \in {<<>>, <<"A">>, <<"B">>, <<"A", "B">>}
  /\ ~escaped

\* C7: the same stored result is deeply equal whichever path returned it,
\* and EX of a gold and a predicted query does not depend on the path either
\* execution took (it is what two fast-path executions give).
C7_PathEquivalence ==
  cmpPc = "done" =>
    /\ deep_equal(GetQueryResultOf(NativeView(bsonGold)),
                  GetQueryResultOf(ShellView(bsonGold)))
    /\ cmpMetrics.EX =
         ExecMetrics(GetQueryResultOf(NativeView(bsonGold)),
                     GetQueryResultOf(NativeView(bsonPred))).EX

\* C8: on the two values compare holds after the cache's freeze/thaw, EX is 1
\* exactly when they are structurally equal (same key sets and equal values
\* for objects, same length and equal items in order for sequences,
\* identical scalars, an object never equal to a sequence).
C8_ExIsStructuralEquality ==
  cmpPc = "done" => (cmpMetrics.EX = 1 <=> StructEq(cmpGold, cmpPred))

\* every field name of every document of a result
AllFields(r) == UNION {collect_fields(DocsOf(r)[i]) : i \in 1..Len(DocsOf(r))}

\* C9: EFM is 1 exactly when the field names of ALL documents of the gold
\* result equal those of ALL documents of the predicted result, documents
\* beyond the shorter result included.
C9_EfmOverAllDocuments ==
  cmpPc = "done" =>
    (cmpMetrics.EFM = 1 <=> AllFields(cmpGold) = AllFields(cmpPred))

\* C10: EVM is 1 iff every positional pair below the shorter length is
\* equal by the EX rule; the documents beyond it have no influence.
C10_EvmOverZippedPrefix ==
  cmpPc = "done" =>
    (cmpMetrics.EVM = 1 <=>
       \A i \in 1..Min(Len(DocsOf(cmpGold)), Len(DocsOf(cmpPred))) :
          StructEq(DocsOf(cmpGold)[i], DocsOf(cmpPred)[i]))

\* the examples whose comparison returned a true value for metric m
TrueFor(m) ==
  {i \in 1..Len(verdicts) : ~verdicts[i].raised /\ verdicts[i].metrics[m] # 0}

\* C11: when calculate has returned, every example was taken, each of the
\* six rates is (examples whose comparison returned a true value) / N and
\* lies in [0,1], an example whose comparison raised adds to N only, and
\* for N = 0 every rate is 0.
C11_AggregatorMeans ==
  pc = "done" =>
    /\ Len(verdicts) = N
    /\ \A m \in MetricsList :
         /\ report[m] = IF N = 0 THEN <<0, 1>>
                        ELSE <<Cardinality(TrueFor(m)), N>>
         /\ 0 <= report[m][1] /\ report[m][1] <= report[m][2]

\* C11 witness: two examples, compare raised on one and returned EM = 1 and
\* EX = 0 for the other: the means are 1/2 and 0/2.
C11_Witness ==
  /\ pc = "done" /\ N = 2
  /\ \E i \in 1..2 : verdicts[i].raised
  /\ report.EM = <<1, 2>> /\ report.EX = <<0, 2>>

RECURSIVE PositionsWhere(_, _)
PositionsWhere(P(_), i) ==
  IF i > Len(verdicts) THEN <<>>
  ELSE (IF P(i) THEN <<i>> ELSE <<>>) \o PositionsWhere(P, i + 1)

\* counted as 0 in the EX rate: compare raised, or returned EX = 0
ExIsZero(i) == verdicts[i].raised \/ verdicts[i].metrics.EX = 0

\* the positions of a list of formatted wrong examples
RECURSIVE PosOf(_)
PosOf(l) == IF l = <<>> THEN <<>> ELSE <<Head(l).pos>> \o PosOf(Tail(l))

\* C12: when the run has ended the failure list was written out, and it
\* holds exactly the examples whose EX is 0, the ones whose comparison
\* failed included, once each, in dataset order.
C12_FailureList ==
  pc = "done" =>
    /\ saved.written
    /\ PosOf(saved.list) = PositionsWhere(ExIsZero, 1)

\* the result a fresh instance returns for the text q
FreshResult(q) == parse_query(NewParser, q).result

\* C13: extraction is idempotent: get_query_stages called twice on a text
\* returns the same list, and the field extractors called twice on a text
\* (extract_fields with its fresh instance per call, parse_query twice in a
\* row on one instance, whatever that instance parsed before) give the same
\* field set, or fail the same way.
C13_Idempotence ==
  /\ stPc \in {"restaged", "fields", "done"} => stAgain = stStages
  /\ stPc = "done" => stFieldsAgain = stFields /\ stRaised[2] = stRaised[1]
  /\ \A i \in 1..(Len(parsed) - 1) :
       parsed[i + 1].query = parsed[i].query =>
         parsed[i + 1].result = parsed[i].result

\* a used instance took the same pipeline twice; the first of the two calls
\* credited fields and left computed marks behind
C13_Witness ==
  /\ Len(parsed) = 3
  /\ parsed[1].query # parsed[2].query
  /\ parsed[2].query = parsed[3].query
  /\ parsed[2].query.call = "aggregate"
  /\ parsed[2].result.fields # parsed[1].result.fields
  /\ computed_fields # {}

\* the pipeline of a text that decodes to one, the empty pipeline otherwise
StagesOfText(q) ==
  IF q.call = "aggregate" /\ IsList(q.decoded) THEN q.decoded.kids ELSE <<>>

\* the aliases the $lookup stages of a text introduce with as:
Aliases(q) ==
  {DictGet(DictGet(st, Op("lookup")), <<"as">>).val :
     st \in {x \in Range(StagesOfText(q)) : HasKey(x, Op("lookup"))}}

\* the field names of a result, whatever the collection
FieldNames(result) == {p[2] : p \in result.fields}

\* C14: the alias of a $lookup stage is never in the field set extracted
\* from its pipeline, wherever else the pipeline names it.
C14_LookupAliasExcluded ==
  \A i \in 1..Len(parsed) :
    Aliases(parsed[i].query) \cap FieldNames(parsed[i].result) = {}

\* the $group document of a text, for the texts that have one
GroupOf(q) ==
  DictGet(CHOOSE st \in Range(StagesOfText(q)) : HasKey(st, Op("group")),
          Op("group"))

HasGroup(q) == \E st \in Range(StagesOfText(q)) : HasKey(st, Op("group"))

\* the fields a $group document refers to: its _id reference, or the
\* references of its _id document, and the operands of its accumulators
RefsOf(v) ==
  IF IsRef(v) THEN {Tail(v.val)}
  ELSE IF IsDict(v)
    THEN {Tail(v.kids[j].val) : j \in {h \in 1..Len(v.kids) : IsRef(v.kids[h])}}
  ELSE {}

GroupRefs(g) == UNION {RefsOf(g.kids[j]) : j \in 1..Len(g.kids)}

\* its output keys other than _id
GroupKeys(g) == Range(g.keys) \ {<<"_id">>}

\* C15: of a pipeline $match on age, $group, a later stage naming an output
\* key of the group, $limit, the extracted fields are age and the fields the
\* _id expression and the accumulator operands refer to, and no output key of
\* the group that only later stages name; the text of the example
\* [{$match:{age:{$gt:30}}},{$group:{_id:"$dept",n:{$sum:1}}},{$sort:{n:-1}},
\* {$limit:1}] has the stages match, group, sort, limit and the fields age
\* and dept.
C15_GroupComputedKeys ==
  /\ \A i \in 1..Len(parsed) :
       HasGroup(parsed[i].query) =>
         LET g == GroupOf(parsed[i].query)
         IN  /\ GroupRefs(g) \subseteq FieldNames(parsed[i].result)
             /\ (GroupKeys(g) \ GroupRefs(g))
                  \cap FieldNames(parsed[i].result) = {}
             /\ g = DictGet(GroupCount, Op("group")) =>
                  FieldNames(parsed[i].result) = {<<"age">>, <<"dept">>}
  /\ (stPc = "staged"
        /\ stQuery = AggregateQuery(<<Match(<<"gt">>), Stage("group"),
                                      Stage("sort"), Stage("limit")>>, FALSE))
       => stStages = <<"match", "group", "sort", "limit">>

\* the conditions of the filter of a find query, of the $match stage of an
\* aggregate query
MatchConds(q) == IF q.shape = "find" THEN q.filter ELSE q.pipeline[1].conds

Negated(conds) == \E i \in 1..Len(conds) : conds[i] \in {"notslash", "notregex"}

Extracted == stPc \in {"staged", "restaged", "fields", "done"}

\* C16: in both shapes, a match condition with a negation operator gets the
\* token not and does not get the token regex, whatever regex operator or
\* pattern literal it holds.
C16_NotExcludesRegex ==
  (Extracted /\ Negated(MatchConds(stQuery))) =>
    Contains(stStages, "not") /\ ~Contains(stStages, "regex")

\* the tokens the find shape is to give, in their fixed order
FindTokens(q) ==
  (IF q.filter # <<>> THEN <<"match">> ELSE <<>>)
    \o (IF q.projection = "some" THEN <<"project">> ELSE <<>>)
    \o (IF Contains(q.chain, "sort") THEN <<"sort">> ELSE <<>>)
    \o (IF Contains(q.chain, "limit") THEN <<"limit">> ELSE <<>>)

IsFindToken(t) == t \in {"match", "project", "sort", "limit"}

\* C17: of a find query the tokens match, project, sort and limit come in
\* this order, match iff the filter is not empty, project iff a projection
\* that is not empty is given, sort iff .sort is chained, limit iff .limit is
\* chained.
C17_FindSynthesis ==
  (Extracted /\ stQuery.shape = "find") =>
    SelectSeq(stStages, IsFindToken) = FindTokens(stQuery)

\* what a query that ran and matched no document gives its caller
EmptySuccess == thaw(freeze(ShellView(List(<<>>))))

\* C18: a call that ran into the timeout hands its caller a value that
\* differs from the result of a successful query without documents.
C18_TimeoutAsAValue ==
  (pc = "get_result" /\ side = "pred" /\ timedOut) =>
    result_gold # EmptySuccess

\* the texts the parser cannot parse: neither shape, or no decoding
ParseFails(q) ==
  q.coll = NoCollection \/ q.call = "none" \/ q.decoded = Undecodable

\* C19: no extractor raises to its caller, and the parser answers a text it
\* cannot parse with its failure value, the empty dictionary, which it gives
\* to no text it can parse.
C19_ParserTotality ==
  /\ \A i \in 1..Len(stRaised) : ~stRaised[i]
  /\ \A i \in 1..Len(parsed) :
       ParseFails(parsed[i].query) <=> parsed[i].result.keys = {}

\* C20: what parse_query returns for a text is what a fresh instance returns
\* for it, whatever the instance parsed before.
C20_NoCrossQueryLeakage ==
  \A i \in 1..Len(parsed) : parsed[i].result = FreshResult(parsed[i].query)

\* a is f, or a dot-prefix of f
IsPrefix(a, f) == Len(a) <= Len(f) /\ SubSeq(f, 1, Len(a)) = a

\* the keys of the $project stages of a text whose value is an expression
ProjectKeys(q) ==
  UNION {{pr.keys[j] : j \in {h \in 1..Len(pr.keys) : IsDict(pr.kids[h])}} :
           pr \in {DictGet(st, Op("project")) :
                     st \in {x \in Range(StagesOfText(q)) :
                               HasKey(x, Op("project"))}}}

\* the names a text introduces: its $lookup aliases, the output keys of its
\* $group stage, its computed $project keys
Introduced(q) ==
  Aliases(q) \cup (IF HasGroup(q) THEN GroupKeys(GroupOf(q)) ELSE {})
    \cup ProjectKeys(q)

\* C21: no path of the extracted field set is a name the query introduces
\* ($lookup alias, $group output key, computed $project key) or has such a
\* name as its dot-prefix.
C21_NoAliasPrefixedPath ==
  \A i \in 1..Len(parsed) :
    \A f \in FieldNames(parsed[i].result) :
      \A a \in Introduced(parsed[i].query) : ~IsPrefix(a, f)

\* C22: no path of the extracted field set starts with a dollar sign.
C22_NoDollarPath ==
  \A i \in 1..Len(parsed) :
    \A f \in FieldNames(parsed[i].result) : ~StartsWithDollar(f)

\* the filter a text hands to the parser: the first argument of find, the
\* document of a leading $match
FilterOf(q) ==
  IF ~IsList(q.decoded) \/ Len(q.decoded.kids) = 0 THEN Dict(<<>>, <<>>)
  ELSE IF q.call = "find" THEN q.decoded.kids[1]
  ELSE IF HasKey(q.decoded.kids[1], Op("match"))
    THEN DictGet(q.decoded.kids[1], Op("match"))
  ELSE Dict(<<>>, <<>>)

\* the field keys of the elements of the $or array of a filter
OrKeys(d) ==
  IF ~HasKey(d, Op("or")) THEN {}
  ELSE UNION {Range(e.keys) : e \in Range(DictGet(d, Op("or")).kids)}

\* C23: every field key used in an element of the $or array of a $match
\* document or a find filter is credited.
C23_LogicalOperators ==
  \A i \in 1..Len(parsed) :
    OrKeys(FilterOf(parsed[i].query)) \subseteq FieldNames(parsed[i].result)

\* the output keys of the $group stages of a pipeline that are also names of
\* schema fields
ComputedKeysOf(q) ==
  IF \E i \in 1..Len(q.pipeline) : q.pipeline[i].op = "groupname"
  THEN {"name"} ELSE {}

\* C24: extract_fields(MQL, db_name) never reports a computed output key of
\* the query, also when the schema has a field of that name.
C24_SchemaAwareExclusion ==
  (stPc \in {"fields", "done"} /\ SchemaLoads(stDb)) =>
    ComputedKeysOf(stQuery) \cap stFields = {}

\* the base token of a stage
BaseOf(st) == IF st.op = "groupname" THEN "group" ELSE st.op

\* one base token per stage, those of a sub-pipeline right behind the token
\* of their $lookup stage
RECURSIVE BaseTokens(_)
BaseTokens(pipeline) ==
  IF pipeline = <<>> THEN <<>>
  ELSE <<BaseOf(Head(pipeline))>> \o BaseTokens(Head(pipeline).sub)
         \o BaseTokens(Tail(pipeline))

IsBaseToken(t) ==
  t \in {"match", "group", "project", "lookup", "unwind", "sort", "limit",
         "skip", "count"}

HasLookup(q) == \E i \in 1..Len(q.pipeline) : q.pipeline[i].op = "lookup"

\* C25: the tokens of the stages of the sub-pipeline of a $lookup stage come
\* right behind the lookup token, in their order, in front of the tokens of
\* the outer stages that follow.
C25_NestedPipelines ==
  (Extracted /\ HasLookup(stQuery)) =>
    SelectSeq(stStages, IsBaseToken) = BaseTokens(stQuery.pipeline)

\* the comparison operator in the $expr subtree of a condition
ExprOpOf(c) == IF c = "expr_eq" THEN "eq" ELSE "gte"

IsExprCond(c) == c \in {"expr_eq", "expr_gte"}

\* expr and the operators of its subtree, for each condition with $expr
RECURSIVE ExprTokensOfConds(_)
ExprTokensOfConds(conds) ==
  IF conds = <<>> THEN <<>>
  ELSE (IF IsExprCond(Head(conds))
          THEN <<"expr", ExprOpOf(Head(conds))>> ELSE <<>>)
         \o ExprTokensOfConds(Tail(conds))

RECURSIVE ExprTokens(_)
ExprTokens(pipeline) ==
  IF pipeline = <<>> THEN <<>>
  ELSE ExprTokensOfConds(Head(pipeline).conds)
         \o ExprTokens(Head(pipeline).sub) \o ExprTokens(Tail(pipeline))

IsExprToken(t) == t \in {"expr", "eq", "gt", "gte", "lt", "lte", "ne"}

\* C26: of a pipeline written with bare keys, the tokens expr, eq, gt, gte,
\* lt, lte and ne are expr for each $match with $expr, followed by exactly
\* the comparison operators that occur inside that $expr.
C26_ExprRefinement ==
  (Extracted /\ stQuery.shape = "aggregate" /\ ~stQuery.quoted
     /\ ExprTokens(stQuery.pipeline) # <<>>) =>
    SelectSeq(stStages, IsExprToken) = ExprTokens(stQuery.pipeline)

IsToken(t) == IsBaseToken(t) \/ t \in {"not", "regex"} \/ IsExprToken(t)

\* the same query written with bare keys
Unquoted(q) == [q EXCEPT !.quoted = FALSE]

\* C27: of an aggregate query without a $lookup stage the list holds one base
\* token per stage in pipeline order, only base and refinement tokens, no
\* token of a comparison operator when no stage uses $expr, and it is the
\* list of the same query written with the other key quoting.
C27_TokenListShape ==
  (Extracted /\ stQuery.shape = "aggregate" /\ ~HasLookup(stQuery)) =>
    /\ SelectSeq(stStages, IsBaseToken) = BaseTokens(stQuery.pipeline)
    /\ \A i \in 1..Len(stStages) : IsToken(stStages[i])
    /\ ExprTokens(stQuery.pipeline) = <<>> =>
         SelectSeq(stStages, IsExprToken) = <<>>
    /\ stStages = get_query_stages(Render(Unquoted(stQuery)))

\* C28: whatever compare returns, EX = 1 comes with EVM = 1 and EFM = 1.
C28_MetricConsistency ==
  cmpPc = "done" =>
    (cmpMetrics.EX = 1 => cmpMetrics.EVM = 1 /\ cmpMetrics.EFM = 1)

\* C29: what _get_query_result hands out is structurally equal to what the
\* execution returned, and two results that are not structurally equal are
\* not deeply equal after the cache either.
C29_CacheRoundTrip ==
  cmpPc = "done" =>
    /\ StructEq(cmpGold, PathView(pathGold, bsonGold))
    /\ StructEq(cmpPred, PathView(pathPred, bsonPred))
    /\ ~StructEq(PathView(pathGold, bsonGold), PathView(pathPred, bsonPred))
         => ~deep_equal(cmpGold, cmpPred)

\* db_id, query = cache_key.split("||", 1): the text _cached_exec works on
\* is the one in the key, the body in its normalised layout
SubmittedText == Text(CurKey[2], 0)

\* C30: the text that is run against the database for a call of
\* _get_query_result(db_id, q) is q itself.
C30_CacheTransparency ==
  pc \in {"native", "shell"} => SubmittedText = CurQuery

====
